---- MODULE Spec2Model ----
(***************************************************************************)
(* Model of the scheduling assistant backend (src/main.py,                 *)
(* src/main_gemini.py, src/src/main_geminiy.py): the rule-based            *)
(* natural-language-to-task extraction, the external-hint normalizer and   *)
(* the schedule orchestrator.                                              *)
(*                                                                         *)
(* Text is modelled by TLA+ strings; TLC evaluates Len, \o, SubSeq, Head   *)
(* and Tail on strings character by character, so the regular expressions  *)
(* and the string formatting of the source are computed on the characters  *)
(* of the prompt, as the source computes them.                             *)
(***************************************************************************)
EXTENDS Integers, Sequences, FiniteSets, TLC

----------------------------------------------------------------------------
(* Characters and strings (Python str, re character classes)               *)

\* s[i-1] of Python, or "" past either end
Char(s, i) == IF i >= 1 /\ i <= Len(s) THEN SubSeq(s, i, i) ELSE ""

\* s[i-1:j] of Python (1-based, inclusive), clamped to the string
Sub(s, i, j) ==
    LET a == IF i < 1 THEN 1 ELSE i
        b == IF j > Len(s) THEN Len(s) ELSE j
    IN IF a > b THEN "" ELSE SubSeq(s, a, b)

DigitChars == {"0", "1", "2", "3", "4", "5", "6", "7", "8", "9"}
UpperAlpha == "ABCDEFGHIJKLMNOPQRSTUVWXYZ"
LowerAlpha == "abcdefghijklmnopqrstuvwxyz"
UpperChars == {SubSeq(UpperAlpha, i, i) : i \in 1..26}
LowerChars == {SubSeq(LowerAlpha, i, i) : i \in 1..26}
SpaceChars == {" ", "\t", "\n"}

\* \d, \w and \s of the re module
IsDigit(c) == c \in DigitChars
IsWord(c) == c \in DigitChars \cup UpperChars \cup LowerChars \cup {"_"}
IsSpace(c) == c \in SpaceChars

IndexIn(alpha, c) ==
    IF \E i \in 1..Len(alpha) : SubSeq(alpha, i, i) = c
    THEN CHOOSE i \in 1..Len(alpha) : SubSeq(alpha, i, i) = c
    ELSE 0

lowerChar(c) ==
    IF c \in UpperChars THEN Char(LowerAlpha, IndexIn(UpperAlpha, c)) ELSE c
upperChar(c) ==
    IF c \in LowerChars THEN Char(UpperAlpha, IndexIn(LowerAlpha, c)) ELSE c

RECURSIVE lower(_)
\* str.lower()
lower(s) == IF s = "" THEN "" ELSE lowerChar(Head(s)) \o lower(Tail(s))

RECURSIVE upper(_)
\* str.upper()
upper(s) == IF s = "" THEN "" ELSE upperChar(Head(s)) \o upper(Tail(s))

\* str.capitalize(): first character upper-cased, the rest lower-cased
capitalize(s) == IF s = "" THEN "" ELSE upperChar(Head(s)) \o lower(Tail(s))

\* s[i-1:i-1+len(pat)] == pat
StartsAt(s, pat, i) == Sub(s, i, i + Len(pat) - 1) = pat /\ i + Len(pat) - 1 <= Len(s)

\* pat in s
Contains(s, pat) == \E i \in 1..(Len(s) - Len(pat) + 1) : SubSeq(s, i, i + Len(pat) - 1) = pat

RECURSIVE RunDigits(_, _)
\* number of consecutive \d characters of s from position i
RunDigits(s, i) == IF IsDigit(Char(s, i)) THEN 1 + RunDigits(s, i + 1) ELSE 0

RECURSIVE RunSpaces(_, _)
\* number of consecutive \s characters of s from position i
RunSpaces(s, i) == IF IsSpace(Char(s, i)) THEN 1 + RunSpaces(s, i + 1) ELSE 0

RECURSIVE RunWord(_, _)
\* number of consecutive \w characters of s from position i
RunWord(s, i) == IF IsWord(Char(s, i)) THEN 1 + RunWord(s, i + 1) ELSE 0

DigitVal(c) == IndexIn("0123456789", c) - 1

RECURSIVE int(_)
\* int(s) of a string of decimal digits
int(s) ==
    IF s = "" THEN 0
    ELSE 10 * int(SubSeq(s, 1, Len(s) - 1)) + DigitVal(SubSeq(s, Len(s), Len(s)))

RECURSIVE NatStr(_)
NatStr(n) ==
    IF n < 10 THEN Char("0123456789", n + 1)
    ELSE NatStr(n \div 10) \o Char("0123456789", (n % 10) + 1)

\* f"{n}" of an int
IntStr(n) == IF n < 0 THEN "-" \o NatStr(0 - n) ELSE NatStr(n)

\* f"{n:02d}" of an int: zero-padded to width 2, the sign counted in the width
Pad2(n) == IF Len(IntStr(n)) < 2 THEN "0" \o IntStr(n) ELSE IntStr(n)

\* s.zfill(2) of a string of digits
zfill2(s) == IF Len(s) = 0 THEN "00" ELSE IF Len(s) = 1 THEN "0" \o s ELSE s

\* the least element of a non-empty set of integers
Least(S) == CHOOSE i \in S : \A j \in S : i <= j

----------------------------------------------------------------------------
(* Calendar (datetime, timedelta, calendar.monthrange)                     *)

\* calendar.isleap
isleap(year) == year % 4 = 0 /\ (year % 100 # 0 \/ year % 400 = 0)

mdays == <<31, 28, 31, 30, 31, 30, 31, 31, 30, 31, 30, 31>>

\* calendar.monthrange(year, month)[1]: the number of days of the month
monthrange(year, month) == mdays[month] + (IF month = 2 /\ isleap(year) THEN 1 ELSE 0)

RECURSIVE DaysBeforeMonth(_, _)
DaysBeforeMonth(year, month) ==
    IF month = 1 THEN 0
    ELSE DaysBeforeMonth(year, month - 1) + monthrange(year, month - 1)

\* date.toordinal(): days since 0001-01-01, that day being 1
toordinal(d) ==
    LET y == d.year - 1
    IN y * 365 + (y \div 4) - (y \div 100) + (y \div 400)
       + DaysBeforeMonth(d.year, d.month) + d.day

\* date.weekday(): Monday is 0, Sunday is 6
weekday(d) == (toordinal(d) + 6) % 7

NextDay(d) ==
    IF d.day < monthrange(d.year, d.month)
    THEN [d EXCEPT !.day = d.day + 1]
    ELSE IF d.month < 12
         THEN [year |-> d.year, month |-> d.month + 1, day |-> 1]
         ELSE [year |-> d.year + 1, month |-> 1, day |-> 1]

RECURSIVE AddDays(_, _)
\* d + timedelta(days=n), n >= 0
AddDays(d, n) == IF n = 0 THEN d ELSE AddDays(NextDay(d), n - 1)

\* d.strftime("%Y-%m-%d")
strftime(d) == IntStr(d.year) \o "-" \o Pad2(d.month) \o "-" \o Pad2(d.day)

\* f"{year}-{month:02d}-{day:02d}"
FormatYMD(year, month, day) == IntStr(year) \o "-" \o Pad2(month) \o "-" \o Pad2(day)

----------------------------------------------------------------------------
(* Date resolver: parse_date_from_prompt                                   *)

\* days_of_week, in the dictionary's insertion order (the loop's order)
days_of_week ==
    << <<"monday", 0>>, <<"mon", 0>>,
       <<"tuesday", 1>>, <<"tue", 1>>, <<"tues", 1>>,
       <<"wednesday", 2>>, <<"wed", 2>>,
       <<"thursday", 3>>, <<"thu", 3>>, <<"thurs", 3>>,
       <<"friday", 4>>, <<"fri", 4>>,
       <<"saturday", 5>>, <<"sat", 5>>,
       <<"sunday", 6>>, <<"sun", 6>> >>

\* month_names, in the dictionary's insertion order (the loop's order)
month_names ==
    << <<"january", 1>>, <<"jan", 1>>,
       <<"february", 2>>, <<"feb", 2>>,
       <<"march", 3>>, <<"mar", 3>>,
       <<"april", 4>>, <<"apr", 4>>,
       <<"may", 5>>,
       <<"june", 6>>, <<"jun", 6>>,
       <<"july", 7>>, <<"jul", 7>>,
       <<"august", 8>>, <<"aug", 8>>,
       <<"september", 9>>, <<"sep", 9>>, <<"sept", 9>>,
       <<"october", 10>>, <<"oct", 10>>,
       <<"november", 11>>, <<"nov", 11>>,
       <<"december", 12>>, <<"dec", 12>> >>

\* the alternatives of next_day_pattern, in the pattern's order
next_day_names ==
    <<"monday", "tuesday", "wednesday", "thursday", "friday", "saturday", "sunday",
      "mon", "tue", "wed", "thu", "fri", "sat", "sun">>

\* days_of_week.get(day_name): -1 stands for None
days_of_week_get(day_name) ==
    IF \E k \in 1..Len(days_of_week) : days_of_week[k][1] = day_name
    THEN days_of_week[CHOOSE k \in 1..Len(days_of_week) : days_of_week[k][1] = day_name][2]
    ELSE -1

\* days_until with "if days_until == 0: days_until = 7" left out
days_until_same_day(day_num, today) == (day_num - weekday(today)) % 7

\* days_until of both weekday rules: (day_num - today.weekday()) % 7, 0 made 7
days_until(day_num, today) ==
    LET du == (day_num - weekday(today)) % 7
    IN IF du = 0 THEN 7 ELSE du

\* the day names of days_of_week found in the prompt (indices, loop order)
WeekdayKeysIn(prompt_lower) ==
    {k \in 1..Len(days_of_week) : Contains(prompt_lower, days_of_week[k][1])}

\* re.search(next_day_pattern, prompt_lower): r"next\s+(monday|...|sun)"
next_day_search(prompt_lower) ==
    LET AltAt(q) == {a \in 1..Len(next_day_names) : StartsAt(prompt_lower, next_day_names[a], q)}
        AfterNext(i) == AltAt(i + 4 + RunSpaces(prompt_lower, i + 4))
        Hits == {i \in 1..Len(prompt_lower) :
                    /\ StartsAt(prompt_lower, "next", i)
                    /\ RunSpaces(prompt_lower, i + 4) >= 1
                    /\ AfterNext(i) # {}}
        First(H) == IF H = {} THEN [ok |-> FALSE, day_name |-> ""]
                    ELSE [ok |-> TRUE, day_name |-> next_day_names[Least(AfterNext(Least(H)))]]
    IN First(Hits)

\* re.search(rf"{month_name}\s+(\d+)(?:st|nd|rd|th)?", prompt_lower)
month_search(prompt_lower, month_name) ==
    LET L == Len(month_name)
        DayAt(i) == i + L + RunSpaces(prompt_lower, i + L)
        Hits == {i \in 1..Len(prompt_lower) :
                    /\ StartsAt(prompt_lower, month_name, i)
                    /\ RunSpaces(prompt_lower, i + L) >= 1
                    /\ IsDigit(Char(prompt_lower, DayAt(i)))}
        Digits(q) == Sub(prompt_lower, q, q + RunDigits(prompt_lower, q) - 1)
        First(H) == IF H = {} THEN [ok |-> FALSE, day |-> 0]
                    ELSE [ok |-> TRUE, day |-> int(Digits(DayAt(Least(H))))]
    IN First(Hits)

\* one turn of the month loop with "year += 1" left out
month_candidate_this_year(prompt_lower, k, today) ==
    LET month_num == month_names[k][2]
        Candidate(m) ==
            [ok |-> m.ok /\ 1 <= m.day /\ m.day <= monthrange(today.year, month_num),
             year |-> today.year, month |-> month_num, day |-> m.day]
    IN Candidate(month_search(prompt_lower, month_names[k][1]))

\* one turn of the month loop: the candidate of month_names[k]
month_candidate(prompt_lower, k, today) ==
    LET month_num == month_names[k][2]
        Year(day) == IF month_num < today.month
                        \/ (month_num = today.month /\ day < today.day)
                     THEN today.year + 1 ELSE today.year
        Candidate(m, year) ==
            [ok |-> m.ok /\ 1 <= m.day /\ m.day <= monthrange(year, month_num),
             year |-> year, month |-> month_num, day |-> m.day]
        Of(m) == Candidate(m, Year(m.day))
    IN Of(month_search(prompt_lower, month_names[k][1]))

\* re.search(r"(\d{1,2})[/-](\d{1,2})(?:[/-](\d{2,4}))?", prompt)
date_pattern_search(prompt) ==
    LET Min(a, b) == IF a < b THEN a ELSE b
        IsSep(c) == c \in {"/", "-"}
        N1(i) == Min(2, RunDigits(prompt, i))
        N2(i) == Min(2, RunDigits(prompt, i + N1(i) + 1))
        Hits == {i \in 1..Len(prompt) :
                    /\ N1(i) >= 1
                    /\ IsSep(Char(prompt, i + N1(i)))
                    /\ N2(i) >= 1}
        Year(p3, n) == IF IsSep(Char(prompt, p3)) /\ n >= 2
                       THEN Sub(prompt, p3 + 1, p3 + Min(4, n)) ELSE ""
        Groups(i, p2, p3) ==
            [ok |-> TRUE,
             g1 |-> Sub(prompt, i, p2 - 2),
             g2 |-> Sub(prompt, p2, p3 - 1),
             g3 |-> Year(p3, RunDigits(prompt, p3 + 1))]
        From(i, p2) == Groups(i, p2, p2 + Min(2, RunDigits(prompt, p2)))
        At(i) == From(i, i + N1(i) + 1)
        First(H) == IF H = {} THEN [ok |-> FALSE, g1 |-> "", g2 |-> "", g3 |-> ""]
                    ELSE At(Least(H))
    IN First(Hits)

\* the numeric M/D rule: its candidate and whether it is accepted
numeric_candidate(prompt, today) ==
    LET Year(g3) == IF g3 = "" THEN today.year
                    ELSE IF Len(g3) = 2 THEN 2000 + int(g3) ELSE int(g3)
        Candidate(ok, month, day, year) ==
            [ok |-> /\ ok
                    /\ 1 <= month /\ month <= 12
                    /\ 1 <= day /\ day <= monthrange(year, month),
             year |-> year, month |-> month, day |-> day]
        Of(dm) == Candidate(dm.ok, int(dm.g1), int(dm.g2), Year(dm.g3))
    IN Of(date_pattern_search(prompt))

\* re.search(r"(\d{4})[/-](\d{1,2})[/-](\d{1,2})", prompt)
iso_date_search(prompt) ==
    LET Min(a, b) == IF a < b THEN a ELSE b
        IsSep(c) == c \in {"/", "-"}
        N2(i) == Min(2, RunDigits(prompt, i + 5))
        N3(i) == Min(2, RunDigits(prompt, i + 5 + N2(i) + 1))
        Hits == {i \in 1..Len(prompt) :
                    /\ RunDigits(prompt, i) >= 4
                    /\ IsSep(Char(prompt, i + 4))
                    /\ N2(i) >= 1
                    /\ IsSep(Char(prompt, i + 5 + N2(i)))
                    /\ N3(i) >= 1}
        Groups(i, p3) ==
            [ok |-> TRUE,
             g1 |-> Sub(prompt, i, i + 3),
             g2 |-> Sub(prompt, i + 5, p3 - 2),
             g3 |-> Sub(prompt, p3, p3 + Min(2, RunDigits(prompt, p3)) - 1)]
        At(i) == Groups(i, i + 5 + N2(i) + 1)
        First(H) == IF H = {} THEN [ok |-> FALSE, g1 |-> "", g2 |-> "", g3 |-> ""]
                    ELSE At(Least(H))
    IN First(Hits)

\* the numeric YYYY-M-D rule: its candidate and whether it is accepted
iso_candidate(prompt) ==
    LET Candidate(ok, year, month, day) ==
            [ok |-> /\ ok
                    /\ 1 <= month /\ month <= 12
                    /\ 1 <= day /\ day <= monthrange(year, month),
             year |-> year, month |-> month, day |-> day]
        Of(im) == Candidate(im.ok, int(im.g1), int(im.g2), int(im.g3))
    IN Of(iso_date_search(prompt))

\* f"{year}-{month:02d}-{day:02d}" of an accepted candidate
FormatCandidate(c) == FormatYMD(c.year, c.month, c.day)

\* target_date.strftime("%Y-%m-%d") of today + timedelta(days=n)
FormatAfter(today, n) == strftime(AddDays(today, n))

\* parse_date_from_prompt with the checks for "tomorrow" and for "today" in
\* each other's place
resolve_date_tomorrow_first(prompt, today) ==
    LET MonthOk(prompt_lower) ==
            {k \in 1..Len(month_names) : month_candidate(prompt_lower, k, today).ok}
        Rules(prompt_lower, wk, mk, nc, ic) ==
            IF Contains(prompt_lower, "tomorrow")
            THEN [rule |-> "tomorrow", date |-> FormatAfter(today, 1)]
            ELSE IF Contains(prompt_lower, "today")
            THEN [rule |-> "today", date |-> strftime(today)]
            ELSE IF Contains(prompt_lower, "next week")
            THEN [rule |-> "next week", date |-> FormatAfter(today, 7)]
            ELSE IF wk # {}
            THEN [rule |-> "weekday",
                  date |-> FormatAfter(today, days_until(days_of_week[Least(wk)][2], today))]
            ELSE IF mk # {}
            THEN [rule |-> "month day",
                  date |-> FormatCandidate(month_candidate(prompt_lower, Least(mk), today))]
            ELSE IF nc.ok
            THEN [rule |-> "numeric M/D", date |-> FormatCandidate(nc)]
            ELSE IF ic.ok
            THEN [rule |-> "numeric Y-M-D", date |-> FormatCandidate(ic)]
            ELSE [rule |-> "default", date |-> FormatAfter(today, 1)]
        Lowered(prompt_lower) ==
            Rules(prompt_lower, WeekdayKeysIn(prompt_lower), MonthOk(prompt_lower),
                  numeric_candidate(prompt, today), iso_candidate(prompt))
    IN Lowered(lower(prompt))

\* parse_date_from_prompt with the rule that produced the date
resolve_date(prompt, today) ==
    LET MonthOk(prompt_lower) ==
            {k \in 1..Len(month_names) : month_candidate(prompt_lower, k, today).ok}
        Rules(prompt_lower, wk, nd, mk, nc, ic) ==
            IF Contains(prompt_lower, "today")
            THEN [rule |-> "today", date |-> strftime(today)]
            ELSE IF Contains(prompt_lower, "tomorrow")
            THEN [rule |-> "tomorrow", date |-> FormatAfter(today, 1)]
            ELSE IF Contains(prompt_lower, "next week")
            THEN [rule |-> "next week", date |-> FormatAfter(today, 7)]
            ELSE IF wk # {}
            THEN [rule |-> "weekday",
                  date |-> FormatAfter(today, days_until(days_of_week[Least(wk)][2], today))]
            ELSE IF nd.ok /\ days_of_week_get(nd.day_name) # -1
            THEN [rule |-> "next weekday",
                  date |-> FormatAfter(today, days_until(days_of_week_get(nd.day_name), today) + 7)]
            ELSE IF mk # {}
            THEN [rule |-> "month day",
                  date |-> FormatCandidate(month_candidate(prompt_lower, Least(mk), today))]
            ELSE IF nc.ok
            THEN [rule |-> "numeric M/D", date |-> FormatCandidate(nc)]
            ELSE IF ic.ok
            THEN [rule |-> "numeric Y-M-D", date |-> FormatCandidate(ic)]
            ELSE [rule |-> "default", date |-> FormatAfter(today, 1)]
        Lowered(prompt_lower) ==
            Rules(prompt_lower, WeekdayKeysIn(prompt_lower), next_day_search(prompt_lower),
                  MonthOk(prompt_lower), numeric_candidate(prompt, today), iso_candidate(prompt))
    IN Lowered(lower(prompt))

parse_date_from_prompt(prompt, today) == resolve_date(prompt, today).date

----------------------------------------------------------------------------
(* End-time calculators                                                    *)

\* calculate_end_time(start_hour, start_min, start_ampm, duration_hours)
calculate_end_time(start_hour, start_min, start_ampm, duration_hours) ==
    LET hour24 == IF start_ampm = "PM" /\ start_hour < 12 THEN start_hour + 12
                  ELSE IF start_ampm = "AM" /\ start_hour = 12 THEN 0
                  ELSE start_hour
        end_hour == hour24 + duration_hours
        end_min == start_min
        end_ampm == IF end_hour >= 12 THEN "PM" ELSE "AM"
        end_hour12 == IF end_hour >= 12
                      THEN (IF end_hour > 12 THEN end_hour - 12 ELSE end_hour)
                      ELSE (IF end_hour = 0 THEN 12 ELSE end_hour)
    IN IntStr(end_hour12) \o ":" \o Pad2(end_min) \o " " \o end_ampm

RECURSIVE split(_)
\* str.split(): the maximal runs of non-whitespace characters
split(s) ==
    IF s = "" THEN <<>>
    ELSE IF IsSpace(Head(s)) THEN split(Tail(s))
    ELSE LET n == Least({k \in 1..Len(s) : IsSpace(Char(s, k + 1)) \/ k = Len(s)})
         IN <<SubSeq(s, 1, n)>> \o split(Sub(s, n + 1, Len(s)))

RECURSIVE split_on(_, _)
\* s.split(sep) for a one-character separator: the pieces between separators
split_on(s, sep) ==
    LET Seps == {k \in 1..Len(s) : SubSeq(s, k, k) = sep}
    IN IF Seps = {} THEN <<s>>
       ELSE <<Sub(s, 1, Least(Seps) - 1)>> \o split_on(Sub(s, Least(Seps) + 1, Len(s)), sep)

RECURSIVE strip(_)
\* str.strip() as int() applies it to its argument
strip(s) ==
    IF s = "" THEN ""
    ELSE IF IsSpace(Head(s)) THEN strip(Tail(s))
    ELSE IF IsSpace(Char(s, Len(s))) THEN strip(SubSeq(s, 1, Len(s) - 1))
    ELSE s

\* whether int(s) returns rather than raising ValueError: optional sign, digits
int_ok(s) ==
    LET t == strip(s)
        body == IF Char(t, 1) \in {"-", "+"} THEN Tail(t) ELSE t
    IN body # "" /\ RunDigits(body, 1) = Len(body)

\* int(s) of a signed decimal literal
int_signed(s) ==
    LET t == strip(s)
    IN IF Char(t, 1) = "-" THEN 0 - int(Tail(t))
       ELSE IF Char(t, 1) = "+" THEN int(Tail(t))
       ELSE int(t)

\* The body of calculate_end_time_from_12h: raised is TRUE where the source's
\* statements raise (IndexError, ValueError or TypeError), value is the result.
\* duration is a hint value [t, s, n]: t = "int" carries the number of minutes.
end_time_from_12h_body(start_time_str, duration) ==
    LET Hours24(hours, period) ==
            IF period = "PM" /\ hours < 12 THEN hours + 12
            ELSE IF period = "AM" /\ hours = 12 THEN 0
            ELSE hours
        Hours12(end_hours) ==
            IF end_hours >= 12
            THEN (IF end_hours > 12 THEN end_hours - 12 ELSE end_hours)
            ELSE (IF end_hours = 0 THEN 12 ELSE end_hours)
        Format(end_hours, end_minutes) ==
            IntStr(Hours12(end_hours)) \o ":" \o Pad2(end_minutes) \o " "
                \o (IF end_hours >= 12 THEN "PM" ELSE "AM")
        Total(total_minutes) == Format(total_minutes \div 60, total_minutes % 60)
        Parsed(hm, period) ==
            IF Len(hm) # 2 \/ ~int_ok(hm[1]) \/ ~int_ok(hm[2]) \/ duration.t # "int"
            THEN [raised |-> TRUE, value |-> ""]
            ELSE [raised |-> FALSE,
                  value |-> Total(Hours24(int_signed(hm[1]), period) * 60
                                  + int_signed(hm[2]) + duration.n)]
        Parts(time_parts) ==
            IF Len(time_parts) < 2 THEN [raised |-> TRUE, value |-> ""]
            ELSE Parsed(split_on(time_parts[1], ":"), time_parts[2])
    IN Parts(split(start_time_str))

\* calculate_end_time_from_12h of src/src/main_geminiy.py: the body in a
\* try whose except clause returns start_time_str
calculate_end_time_from_12h_y(start_time_str, duration) ==
    LET Caught(r) == IF r.raised THEN [raised |-> FALSE, value |-> start_time_str] ELSE r
    IN Caught(end_time_from_12h_body(start_time_str, duration))

\* calculate_end_time_from_12h of src/main_gemini.py: no try, the error propagates
calculate_end_time_from_12h_g(start_time_str, duration) ==
    end_time_from_12h_body(start_time_str, duration)

calculate_end_time_from_12h(variant, start_time_str, duration) ==
    IF variant = "geminiy" THEN calculate_end_time_from_12h_y(start_time_str, duration)
    ELSE calculate_end_time_from_12h_g(start_time_str, duration)

----------------------------------------------------------------------------
(* Time-of-day, duration and activity recognizers (re.search, IGNORECASE)  *)

\* The attempts of the regex engine are functions from the position (or the
\* alternative) tried to the outcome of the attempt, a record with field ok.

\* the outcome at the least position that succeeds: re.search scans left to
\* right, a lazy quantifier grows, alternatives are tried in order
FirstMatch(M, none) ==
    LET Hits == {j \in DOMAIN M : M[j].ok}
    IN IF Hits = {} THEN none ELSE M[Least(Hits)]

\* the outcome at the greatest position that succeeds: a greedy quantifier
\* gives back, an optional group is tried before it is skipped
LastMatch(M, none) ==
    LET Hits == {j \in DOMAIN M : M[j].ok}
    IN IF Hits = {} THEN none ELSE M[CHOOSE j \in Hits : \A k \in Hits : k <= j]

NoTime == [ok |-> FALSE, hour |-> "", min |-> "", ampm |-> ""]

\* (\d*)\s*(AM|PM|am|pm) anchored at q, after the hour digits: both runs
\* are taken whole, a shorter one leaves a digit or a blank where the meridiem
\* must start
time_tail(s, q, hour) ==
    LET Meridiem(q2, q3) ==
            [ok |-> q3 + 1 <= Len(s) /\ lower(Sub(s, q3, q3 + 1)) \in {"am", "pm"},
             hour |-> hour,
             min |-> Sub(s, q, q2 - 1),
             ampm |-> Sub(s, q3, q3 + 1)]
        Minutes(q2) == Meridiem(q2, q2 + RunSpaces(s, q2))
    IN Minutes(q + RunDigits(s, q))

\* r"(\d+):?(\d*)\s*(AM|PM|am|pm)" anchored at i: \d+ takes the whole run of
\* digits, then the colon is tried first and dropped on failure
time_match_at(s, i) ==
    LET Colon(p) == IF Char(s, p) = ":" THEN {p, p + 1} ELSE {p}
        Hour(p) == LastMatch([q \in Colon(p) |-> time_tail(s, q, Sub(s, i, p - 1))], NoTime)
    IN IF RunDigits(s, i) = 0 THEN NoTime ELSE Hour(i + RunDigits(s, i))

\* r".*?" followed by the time pattern, anchored at from: the first position
\* where the time pattern matches, with no line break before it
time_scan(s, from) ==
    LET Breaks == {k \in from..Len(s) : Char(s, k) = "\n"}
        SameLine == from..(IF Breaks = {} THEN Len(s) ELSE Least(Breaks))
    IN FirstMatch([j \in SameLine |-> time_match_at(s, j)], NoTime)

\* re.search(time_pattern, s, re.IGNORECASE)
time_search(s) == FirstMatch([j \in 1..Len(s) |-> time_match_at(s, j)], NoTime)

NoMatch == [ok |-> FALSE, subject |-> "", hour |-> "", min |-> "", ampm |-> ""]

\* the match of a recognizer: its captured subject and the time t after it
WithSubject(subject, t) ==
    [ok |-> t.ok, subject |-> subject, hour |-> t.hour, min |-> t.min, ampm |-> t.ampm]

\* r"(\w+).*?" and the time pattern anchored at q: \w+ is greedy, and gives
\* characters back until a time is found after it
word_then_time(s, q) ==
    LastMatch([k \in 1..RunWord(s, q) |->
                  WithSubject(Sub(s, q, q + k - 1), time_scan(s, q + k))], NoMatch)

\* a time found by time_scan as a match with no subject
time_only(s, from) == WithSubject("", time_scan(s, from))

\* re.search(r"lunch with (\w+).*?(\d+):?(\d*)\s*(AM|PM|am|pm)", prompt, re.IGNORECASE)
lunch_search(prompt) ==
    LET ls == lower(prompt)
        Starts == {i \in 1..Len(prompt) : StartsAt(ls, "lunch with ", i)}
    IN FirstMatch([i \in Starts |-> word_then_time(prompt, i + 11)], NoMatch)

\* re.search(r"gym.*?(\d+):?(\d*)\s*(AM|PM|am|pm)", prompt, re.IGNORECASE)
gym_search(prompt) ==
    LET ls == lower(prompt)
        Starts == {i \in 1..Len(prompt) : StartsAt(ls, "gym", i)}
    IN FirstMatch([i \in Starts |-> time_only(prompt, i + 3)], NoMatch)

\* re.search(r"class\s+(\w+).*?(\d+):?(\d*)\s*(AM|PM|am|pm)", prompt, re.IGNORECASE)
class_search(prompt) ==
    LET ls == lower(prompt)
        Starts == {i \in 1..Len(prompt) :
                      StartsAt(ls, "class", i) /\ RunSpaces(prompt, i + 5) >= 1}
    IN FirstMatch([i \in Starts |->
                      word_then_time(prompt, i + 5 + RunSpaces(prompt, i + 5))], NoMatch)

\* r"\s+(?:with)?\s*(\w+).*?" and the time pattern anchored at b: the blanks
\* are taken whole, "with" is tried first and given back on failure
meeting_rest(prompt, ls, b) ==
    LET With(q) == IF StartsAt(ls, "with", q)
                   THEN {q, q + 4 + RunSpaces(prompt, q + 4)} ELSE {q}
        Blanks(q) == LastMatch([w \in With(q) |-> word_then_time(prompt, w)], NoMatch)
    IN IF RunSpaces(prompt, b) = 0 THEN NoMatch ELSE Blanks(b + RunSpaces(prompt, b))

\* r"meet(?:ing)?\s+(?:with)?\s*(\w+).*?(\d+):?(\d*)\s*(AM|PM|am|pm)" anchored
\* at i: "ing" is tried first and given back on failure
meeting_match_at(prompt, ls, i) ==
    LET Ing == IF StartsAt(ls, "ing", i + 4) THEN {i + 4, i + 7} ELSE {i + 4}
    IN IF ~StartsAt(ls, "meet", i) THEN NoMatch
       ELSE LastMatch([b \in Ing |-> meeting_rest(prompt, ls, b)], NoMatch)

\* re.search(meeting_pattern, prompt, re.IGNORECASE)
meeting_search(prompt) ==
    LET Lowered(ls) ==
            FirstMatch([i \in 1..Len(prompt) |-> meeting_match_at(prompt, ls, i)], NoMatch)
    IN Lowered(lower(prompt))

appointment_words == <<"appointment", "doctor", "dentist", "interview">>

\* r"(appointment|doctor|dentist|interview).*?" and the time pattern anchored at i
appointment_match_at(prompt, ls, i) ==
    LET Alts == {a \in 1..Len(appointment_words) : StartsAt(ls, appointment_words[a], i)}
        Word(L) == WithSubject(Sub(prompt, i, i + L - 1), time_scan(prompt, i + L))
    IN FirstMatch([a \in Alts |-> Word(Len(appointment_words[a]))], NoMatch)

\* re.search(appointment_pattern, prompt, re.IGNORECASE)
appointment_search(prompt) ==
    LET Lowered(ls) ==
            FirstMatch([i \in 1..Len(prompt) |-> appointment_match_at(prompt, ls, i)], NoMatch)
    IN Lowered(lower(prompt))

\* duration_hours of parse_tasks_directly: re.search(r"for\s+(\d+)\s+hour")
\* read as a number of hours, 1 when the phrase is absent
duration_hours(prompt) ==
    LET ls == lower(prompt)
        D(i) == i + 3 + RunSpaces(prompt, i + 3)
        E(i) == D(i) + RunDigits(prompt, D(i))
        Hits == {i \in 1..Len(prompt) :
                    /\ StartsAt(ls, "for", i)
                    /\ RunSpaces(prompt, i + 3) >= 1
                    /\ RunDigits(prompt, D(i)) >= 1
                    /\ RunSpaces(prompt, E(i)) >= 1
                    /\ StartsAt(ls, "hour", E(i) + RunSpaces(prompt, E(i)))}
        Digits(d) == int(Sub(prompt, d, d + RunDigits(prompt, d) - 1))
        First(H) == IF H = {} THEN 1 ELSE Digits(D(Least(H)))
    IN First(Hits)

----------------------------------------------------------------------------
(* Direct-parse orchestrator: parse_tasks_directly                         *)

RECURSIVE join(_, _)
\* sep.join(words)
join(words, sep) ==
    IF Len(words) = 0 THEN ""
    ELSE IF Len(words) = 1 THEN words[1]
    ELSE words[1] \o sep \o join(Tail(words), sep)

\* words[:min(4, len(words))]: one word fewer than the source takes
first_words_four(words) == SubSeq(words, 1, IF Len(words) < 4 THEN Len(words) ELSE 4)

\* words[:min(5, len(words))]
first_words(words) == SubSeq(words, 1, IF Len(words) < 5 THEN Len(words) ELSE 5)

\* the Task a recognizer appends for its match m: the captured hour through
\* int(), the minute "00" when not captured, the meridiem upper-cased
match_task(name, m, default_duration, date_str) ==
    LET Task(start_hour, start_min, start_ampm) ==
            [name |-> name,
             start_time |-> IntStr(start_hour) \o ":" \o zfill2(start_min) \o " " \o start_ampm,
             end_time |-> calculate_end_time(start_hour, int(start_min), start_ampm,
                                             default_duration),
             date |-> date_str]
    IN Task(int(m.hour), IF m.min = "" THEN "00" ELSE m.min, upper(m.ampm))

\* the generic Task of the "if not tasks" branch
generic_task(prompt, default_duration, date_str) ==
    LET Named(task_name, time_match) ==
            IF time_match.ok
            THEN match_task(task_name, time_match, default_duration, date_str)
            ELSE [name |-> task_name, start_time |-> "12:00 PM",
                  end_time |-> "1:00 PM", date |-> date_str]
    IN Named(join(first_words(split(prompt)), " "), time_search(prompt))

\* the lunch recognizer alone: the other recognizers left out
recognizer_tasks_lunch_only(variant, prompt, default_duration, date_str) ==
    LET Lunch(lunch_match) ==
            IF lunch_match.ok
            THEN <<match_task("Lunch with " \o lunch_match.subject, lunch_match,
                              default_duration, date_str)>>
            ELSE <<>>
    IN Lunch(lunch_search(prompt))

\* the Tasks the recognizers append, in the order the source runs them; the
\* appointment recognizer exists in src/src/main_geminiy.py only
recognizer_tasks(variant, prompt, default_duration, date_str) ==
    LET One(m, name) == IF m.ok THEN <<match_task(name, m, default_duration, date_str)>>
                        ELSE <<>>
        Lunch(lunch_match) == One(lunch_match, "Lunch with " \o lunch_match.subject)
        Gym(gym_match) == One(gym_match, "Gym workout")
        Class(class_match) == One(class_match, "Class " \o class_match.subject)
        Meeting(meeting_match) == One(meeting_match, "Meeting with " \o meeting_match.subject)
        Appointment(appointment_match) ==
            One(appointment_match, capitalize(appointment_match.subject) \o " appointment")
    IN Lunch(lunch_search(prompt))
       \o Gym(gym_search(prompt))
       \o Class(class_search(prompt))
       \o Meeting(meeting_search(prompt))
       \o (IF variant = "geminiy" THEN Appointment(appointment_search(prompt)) ELSE <<>>)

\* the recognizers in the order of their statements in parse_tasks_directly,
\* appointment first: not the order of the source
recognizers_appointment_first(variant) ==
    IF variant = "geminiy" THEN <<"appointment", "lunch", "gym", "class", "meeting">>
    ELSE <<"meeting", "lunch", "gym", "class">>

\* the recognizers in the order of their statements in parse_tasks_directly
recognizers(variant) ==
    IF variant = "geminiy" THEN <<"lunch", "gym", "class", "meeting", "appointment">>
    ELSE <<"lunch", "gym", "class", "meeting">>

\* one recognizer's statements: re.search of its pattern and, on a match, the
\* Task it appends
recognizer_step(recognizer, prompt, default_duration, date_str) ==
    LET One(m, name) == IF m.ok THEN <<match_task(name, m, default_duration, date_str)>>
                        ELSE <<>>
        Lunch(lunch_match) == One(lunch_match, "Lunch with " \o lunch_match.subject)
        Gym(gym_match) == One(gym_match, "Gym workout")
        Class(class_match) == One(class_match, "Class " \o class_match.subject)
        Meeting(meeting_match) == One(meeting_match, "Meeting with " \o meeting_match.subject)
        Appointment(appointment_match) ==
            One(appointment_match, capitalize(appointment_match.subject) \o " appointment")
    IN CASE recognizer = "lunch" -> Lunch(lunch_search(prompt))
         [] recognizer = "gym" -> Gym(gym_search(prompt))
         [] recognizer = "class" -> Class(class_search(prompt))
         [] recognizer = "meeting" -> Meeting(meeting_search(prompt))
         [] recognizer = "appointment" -> Appointment(appointment_search(prompt))

\* parse_tasks_directly with the "if not tasks" branch left out: what the
\* recognizers alone give
parse_tasks_directly_no_fallback(variant, prompt, today) ==
    recognizer_tasks(variant, prompt, duration_hours(prompt),
                     parse_date_from_prompt(prompt, today))

\* parse_tasks_directly(prompt), today being datetime.now() of the call
parse_tasks_directly(variant, prompt, today) ==
    LET OrGeneric(tasks, default_duration, date_str) ==
            IF Len(tasks) = 0
            THEN <<generic_task(prompt, default_duration, date_str)>>
            ELSE tasks
        Parsed(date_str, default_duration) ==
            OrGeneric(recognizer_tasks(variant, prompt, default_duration, date_str),
                      default_duration, date_str)
    IN Parsed(parse_date_from_prompt(prompt, today), duration_hours(prompt))

----------------------------------------------------------------------------
(* External hint: the dictionary analyze_message returns                   *)

\* A JSON value of the hint: t is "absent" (no such key), "none" (null),
\* "str" (the string s) or "int" (the number n).
Absent == [t |-> "absent", s |-> "", n |-> 0]
None == [t |-> "none", s |-> "", n |-> 0]
Str(x) == [t |-> "str", s |-> x, n |-> 0]
Num(k) == [t |-> "int", s |-> "", n |-> k]

\* bool(analysis.get(key)): None, "" and 0 are false
Truthy(v) == (v.t = "str" /\ v.s # "") \/ (v.t = "int" /\ v.n # 0)

\* what analyze_message hands back: kind "dict" is a dictionary, kind "none"
\* is the value None of a function that ends without a return statement
Analysis(success, event_name, date, start_time, duration) ==
    [kind |-> "dict", success |-> success, event_name |-> event_name,
     date |-> date, start_time |-> start_time, duration |-> duration]
NoneAnalysis ==
    [kind |-> "none", success |-> FALSE, event_name |-> Absent,
     date |-> Absent, start_time |-> Absent, duration |-> Absent]

\* the duration of _fallback_extraction, in minutes:
\* re.search(r"for\s+(\d+)\s+(hour|hr|minute|min)s?"), 60 when absent
fallback_duration(message) ==
    LET ls == lower(message)
        units == <<"hour", "hr", "minute", "min">>
        D(i) == i + 3 + RunSpaces(message, i + 3)
        E(i) == D(i) + RunDigits(message, D(i))
        U(i) == E(i) + RunSpaces(message, E(i))
        UnitsAt(q) == {u \in 1..Len(units) : StartsAt(ls, units[u], q)}
        Hits == {i \in 1..Len(message) :
                    /\ StartsAt(ls, "for", i)
                    /\ RunSpaces(message, i + 3) >= 1
                    /\ RunDigits(message, D(i)) >= 1
                    /\ RunSpaces(message, E(i)) >= 1
                    /\ UnitsAt(U(i)) # {}}
        i0 == Least(Hits)
        duration_value == int(Sub(message, D(i0), E(i0) - 1))
        duration_unit == units[Least(UnitsAt(U(i0)))]
    IN IF Hits = {} THEN 60
       ELSE IF duration_unit \in {"hour", "hr"} THEN duration_value * 60
       ELSE duration_value

\* SimplifiedGeminiAnalyzer._fallback_extraction(message)
fallback_extraction(message, today) ==
    LET Hours24(hours, period) ==
            IF period = "PM" /\ hours < 12 THEN hours + 12
            ELSE IF period = "AM" /\ hours = 12 THEN 0
            ELSE hours
        StartTime(time_match) ==
            IF time_match.ok
            THEN Str(Pad2(Hours24(int(time_match.hour), upper(time_match.ampm))) \o ":"
                     \o (IF time_match.min = "" THEN "00" ELSE time_match.min))
            ELSE None
        EventName(words) ==
            IF Len(words) > 0 THEN Str(join(first_words(words), " ")) ELSE None
    IN Analysis(TRUE,
                EventName(split(message)),
                Str(parse_date_from_prompt(message, today)),
                StartTime(time_search(message)),
                Num(fallback_duration(message)))

\* _extract_with_regex on a response that holds none of the four fields:
\* the duration defaults to 60 in src/src/main_geminiy.py, to None in
\* src/main_gemini.py
extract_with_regex_empty(variant) ==
    Analysis(TRUE, None, None, None, IF variant = "geminiy" THEN Num(60) ELSE None)

\* the dictionary analyze_message of src/main_gemini.py returns on an error
error_analysis == Analysis(FALSE, None, None, None, None)

----------------------------------------------------------------------------
(* External-hint normalizer: convert_analysis_to_tasks                     *)

\* start_time taken from the prompt: f"{hours}:{minutes} {period}", or noon
prompt_start_time(original_prompt) ==
    LET Format(time_match) ==
            IF time_match.ok
            THEN time_match.hour \o ":"
                 \o (IF time_match.min = "" THEN "00" ELSE time_match.min)
                 \o " " \o upper(time_match.ampm)
            ELSE "12:00 PM"
    IN Format(time_search(original_prompt))

\* whether hours, minutes = map(int, analysis["start_time"].split(":")) returns
hint_time_ok(v) ==
    /\ v.t = "str"
    /\ Len(split_on(v.s, ":")) = 2
    /\ int_ok(split_on(v.s, ":")[1])
    /\ int_ok(split_on(v.s, ":")[2])

\* the 24-hour hint time with 12 taken off noon as well ("if hours >= 12:
\* hours -= 12")
hint_time_12h_noon_zero(v) ==
    LET Hours12(hours) ==
            IF hours >= 12 THEN hours - 12
            ELSE (IF hours = 0 THEN 12 ELSE hours)
        Format(hours, minutes) ==
            IntStr(Hours12(hours)) \o ":" \o Pad2(minutes) \o " "
                \o (IF hours >= 12 THEN "PM" ELSE "AM")
        Parts(hm) == Format(int_signed(hm[1]), int_signed(hm[2]))
    IN Parts(split_on(v.s, ":"))

\* the 24-hour hint time rendered f"{hours}:{minutes:02d} {period}"
hint_time_12h(v) ==
    LET Hours12(hours) ==
            IF hours >= 12
            THEN (IF hours > 12 THEN hours - 12 ELSE hours)
            ELSE (IF hours = 0 THEN 12 ELSE hours)
        Format(hours, minutes) ==
            IntStr(Hours12(hours)) \o ":" \o Pad2(minutes) \o " "
                \o (IF hours >= 12 THEN "PM" ELSE "AM")
        Parts(hm) == Format(int_signed(hm[1]), int_signed(hm[2]))
    IN Parts(split_on(v.s, ":"))

\* the start_time of the Task
hint_start_time(analysis, original_prompt) ==
    IF Truthy(analysis.start_time) /\ hint_time_ok(analysis.start_time)
    THEN hint_time_12h(analysis.start_time)
    ELSE prompt_start_time(original_prompt)

\* The statements of convert_analysis_to_tasks after the required-field
\* check: raised is TRUE where calculate_end_time_from_12h raises.
convert_body(variant, analysis, original_prompt, today) ==
    LET event_name == analysis.event_name.s
        date == IF Truthy(analysis.date) THEN analysis.date.s
                ELSE parse_date_from_prompt(original_prompt, today)
        duration_minutes == IF analysis.duration.t = "absent" THEN Num(60)
                            ELSE analysis.duration
        Ended(start_time, end_time) ==
            IF end_time.raised THEN [raised |-> TRUE, tasks |-> <<>>]
            ELSE [raised |-> FALSE,
                  tasks |-> <<[name |-> event_name, start_time |-> start_time,
                               end_time |-> end_time.value, date |-> date]>>]
        Started(start_time) ==
            Ended(start_time,
                  calculate_end_time_from_12h(variant, start_time, duration_minutes))
    IN Started(hint_start_time(analysis, original_prompt))

\* convert_analysis_to_tasks of src/src/main_geminiy.py: event_name is
\* required, and the except clause turns any error into no tasks
convert_analysis_to_tasks_y(analysis, original_prompt, today) ==
    LET Caught(r) == IF r.raised THEN [raised |-> FALSE, tasks |-> <<>>] ELSE r
    IN IF ~Truthy(analysis.event_name) THEN [raised |-> FALSE, tasks |-> <<>>]
       ELSE Caught(convert_body("geminiy", analysis, original_prompt, today))

\* convert_analysis_to_tasks of src/main_gemini.py: event_name and date are
\* required, and an error propagates to the caller
convert_analysis_to_tasks_g(analysis, original_prompt, today) ==
    IF ~(Truthy(analysis.event_name) /\ Truthy(analysis.date))
    THEN [raised |-> FALSE, tasks |-> <<>>]
    ELSE convert_body("gemini", analysis, original_prompt, today)

\* convert_analysis_to_tasks with the check of the required fields left out
convert_analysis_to_tasks_unnamed(variant, analysis, original_prompt, today) ==
    LET Caught(r) == IF variant = "geminiy" /\ r.raised
                     THEN [raised |-> FALSE, tasks |-> <<>>] ELSE r
    IN Caught(convert_body(variant, analysis, original_prompt, today))

convert_analysis_to_tasks(variant, analysis, original_prompt, today) ==
    IF variant = "geminiy"
    THEN convert_analysis_to_tasks_y(analysis, original_prompt, today)
    ELSE convert_analysis_to_tasks_g(analysis, original_prompt, today)

----------------------------------------------------------------------------
(* Schedule orchestrator: analyze_message and schedule                     *)

\* range(3) of the retry loop of analyze_message (src/src/main_geminiy.py)
MaxAttempts == 3

\* What one call of generate_content and the parsing of its response give:
\* "error" (the call or response.text raises), "malformed" (a response with
\* no JSON object and none of the fields) or "json" (the dictionary hint).
ErrorOutcome == [kind |-> "error", hint |-> NoneAnalysis]
MalformedOutcome == [kind |-> "malformed", hint |-> NoneAnalysis]
JsonOutcome(h) == [kind |-> "json", hint |-> h]

\* the except clause of the retry loop with its re-raise never taken
is_last_attempt_never(attempt) == attempt = MaxAttempts

\* "if attempt == 2: raise" of the retry loop's except clause
is_last_attempt(attempt) == attempt = 2

\* One turn of analyze_message on the outcome o of its call: where the
\* request goes next, the loop counter, and the dictionary returned.
\* src/main_gemini.py calls once and reports an error as success = False;
\* src/src/main_geminiy.py retries, re-raises on the last attempt (attempt
\* = 2) and returns _fallback_extraction from the outer except clause.
analyze_step(variant, attempt, o, message, today) ==
    IF o.kind = "json"
    THEN [pc |-> "convert", attempt |-> attempt, analysis |-> o.hint]
    ELSE IF o.kind = "malformed"
    THEN [pc |-> "convert", attempt |-> attempt,
          analysis |-> extract_with_regex_empty(variant)]
    ELSE IF variant = "gemini"
    THEN [pc |-> "convert", attempt |-> attempt, analysis |-> error_analysis]
    ELSE IF is_last_attempt(attempt)
    THEN [pc |-> "convert", attempt |-> attempt,
          analysis |-> fallback_extraction(message, today)]
    ELSE IF attempt + 1 < MaxAttempts
    THEN [pc |-> "attempt", attempt |-> attempt + 1, analysis |-> NoneAnalysis]
    ELSE [pc |-> "convert", attempt |-> attempt + 1, analysis |-> NoneAnalysis]

Pending == [status |-> "pending", tasks |-> <<>>, direct_runs |-> 0]

\* "return parse_tasks_directly(prompt)" of schedule
direct_result(variant, prompt, today) ==
    [status |-> "returned", tasks |-> parse_tasks_directly(variant, prompt, today),
     direct_runs |-> 1]

\* schedule with no except clause: the error reaches the caller
schedule_on_error_propagating(variant, prompt, today) ==
    [status |-> "raised", tasks |-> <<>>, direct_runs |-> 0]

\* The except clause of schedule that receives an error of the external
\* path (the inner one in src/src/main_geminiy.py, the only one in
\* src/main_gemini.py): the error is logged and direct parsing answers.
schedule_on_error(variant, prompt, today) == direct_result(variant, prompt, today)

\* schedule with the external path ignored: direct parsing always answers
schedule_finish_direct_only(variant, analysis, prompt, today) ==
    direct_result(variant, prompt, today)

\* schedule from the return of analyze_message on: the success flag, the
\* normalizer, and the fall back to direct parsing.  analysis_result.get
\* raises on None, convert_analysis_to_tasks may raise in src/main_gemini.py.
schedule_finish(variant, analysis, prompt, today) ==
    LET Decide(conv, direct, on_error) ==
            IF analysis.kind = "none" THEN on_error
            ELSE IF ~analysis.success THEN direct
            ELSE IF conv.raised THEN on_error
            ELSE IF Len(conv.tasks) > 0
            THEN [status |-> "returned", tasks |-> conv.tasks, direct_runs |-> 0]
            ELSE direct
    IN Decide(convert_analysis_to_tasks(variant, analysis, prompt, today),
              direct_result(variant, prompt, today),
              schedule_on_error(variant, prompt, today))

----------------------------------------------------------------------------
(* Inputs                                                                  *)

Variants == {"main", "gemini", "geminiy"}

Date(y, m, d) == [year |-> y, month |-> m, day |-> d]

\* the day of the requests, a Tuesday (SpecDate varies the reference date)
Todays == {Date(2025, 6, 10)}

Activities == {"", "lunch with Sam", "call mom"}
TimePhrases == {"", " at 1pm", " at 11pm for 2 hours"}
DatePhrases == {"", " tomorrow"}
SpecialPrompts ==
    {"   ",
     "meeting with Dana at 11:30am and lunch with Sam at 1pm",
     "class 101 at 9:15 AM next week",
     "dentist 13pm friday",
     "gym 1:5pm today", "gym at 11pm", "gym 0am feb 29",
     "one two three four five six seven",
     "doctor 6pm meet Al 5pm class 3 4pm gym 2pm lunch with Sam at 1pm"}
Prompts ==
    SpecialPrompts
    \cup {a \o t \o d : a \in Activities, t \in TimePhrases, d \in DatePhrases}

\* hint fields the analyzer may send back
HintNames == {Absent, None, Str(""), Str("Team sync")}
HintDates == {Absent, Str("2025-07-04")}
HintStarts == {Absent, Str("23:15"), Str("2pm")}
MaxHintHours == 1
HintDurations == {Absent, None} \cup {Num(90 * k) : k \in 1..MaxHintHours}
Hints ==
    {Analysis(TRUE, e, d, s, u) :
        e \in HintNames, d \in HintDates, s \in HintStarts, u \in HintDurations}
Outcomes == {ErrorOutcome, MalformedOutcome} \cup {JsonOutcome(h) : h \in Hints}

----------------------------------------------------------------------------
(* State                                                                   *)

\* the requests the server may hold; a request is "off" until it is admitted
Reqs == {1, 2}

VARIABLES
    variant,            \* which of the three programs is running
    GEMINI_AVAILABLE,   \* the module-level flag of src/src/main_geminiy.py
    model_ready,        \* gemini_analyzer.model is not None
    today,              \* datetime.now() of the request
    pc,                 \* per request: "off", "idle", "attempt", "convert", "done"
    prompt,             \* per request: req.prompt
    attempt,            \* per request: the loop counter of analyze_message
    outcomes,           \* per request: the outcome kinds of the calls made so far
    analysis,           \* per request: what analyze_message returned
    result,             \* per request: what schedule returned
    calc,               \* one use of the end-time calculators: inputs and results
    resolved,           \* one use of parse_date_from_prompt: input and result
    parsed,             \* one use of parse_tasks_directly: input and result
    converted,          \* one use of convert_analysis_to_tasks: inputs and result
    ended,              \* one use of calculate_end_time_from_12h: inputs and result
    stepped             \* one run of parse_tasks_directly, statement by statement

vars == <<variant, GEMINI_AVAILABLE, model_ready, today,
          pc, prompt, attempt, outcomes, analysis, result, calc, resolved, parsed, converted,
          ended, stepped>>

\* the calculators, the date resolver, the direct parse and the normalizer not
\* in use on their own
CalcIdle ==
    [pc |-> "idle", op |-> "", start_hour |-> 12, start_min |-> 0, start_ampm |-> "PM",
     duration |-> 0, end |-> "", back |-> ""]
ResolvedIdle == [pc |-> "idle", prompt |-> "", rule |-> "", date |-> ""]
ParsedIdle == [pc |-> "idle", prompt |-> "", tasks |-> <<>>]
ConvertedIdle ==
    [pc |-> "idle", hours |-> 0, minutes |-> 0, analysis |-> NoneAnalysis,
     prompt |-> "", raised |-> FALSE, tasks |-> <<>>]
EndedIdle ==
    [pc |-> "idle", start_time_str |-> "", duration_minutes |-> Absent,
     raised |-> FALSE, value |-> ""]
SteppedIdle ==
    [pc |-> "idle", prompt |-> "", date_str |-> "", date_runs |-> 0, default_duration |-> 0,
     ran |-> <<>>, tasks |-> <<>>, origin |-> <<>>]

\* the flag and the model as module import leaves them in each program
Configured(v, avail, ready) ==
    /\ v = "main" => ~avail /\ ~ready
    /\ v = "gemini" => avail /\ ready
    /\ ready => avail

Init ==
    /\ variant \in Variants
    /\ GEMINI_AVAILABLE \in BOOLEAN
    /\ model_ready \in BOOLEAN
    /\ Configured(variant, GEMINI_AVAILABLE, model_ready)
    /\ today \in Todays
    /\ pc = [r \in Reqs |-> IF r = 1 THEN "idle" ELSE "off"]
    /\ prompt = [r \in Reqs |-> ""]
    /\ attempt = [r \in Reqs |-> 0]
    /\ outcomes = [r \in Reqs |-> <<>>]
    /\ analysis = [r \in Reqs |-> NoneAnalysis]
    /\ result = [r \in Reqs |-> Pending]
    /\ calc = CalcIdle
    /\ resolved = ResolvedIdle
    /\ parsed = ParsedIdle
    /\ converted = ConvertedIdle
    /\ ended = EndedIdle
    /\ stepped = SteppedIdle

\* schedule(req) up to the first call of the analyzer: direct parsing when
\* there is no analyzer (src/main.py) or GEMINI_AVAILABLE is false, the
\* fallback extraction when the model is None, the retry loop otherwise
ReceiveFrom(r, prompts) ==
    /\ pc[r] = "idle"
    /\ \E p \in prompts :
        /\ prompt' = [prompt EXCEPT ![r] = p]
        /\ IF variant = "main" \/ ~GEMINI_AVAILABLE
           THEN /\ result' = [result EXCEPT ![r] = direct_result(variant, p, today)]
                /\ pc' = [pc EXCEPT ![r] = "done"]
                /\ UNCHANGED analysis
           ELSE IF ~model_ready
           THEN /\ analysis' = [analysis EXCEPT ![r] = fallback_extraction(p, today)]
                /\ pc' = [pc EXCEPT ![r] = "convert"]
                /\ UNCHANGED result
           ELSE /\ pc' = [pc EXCEPT ![r] = "attempt"]
                /\ UNCHANGED <<analysis, result>>
    /\ UNCHANGED <<variant, GEMINI_AVAILABLE, model_ready, today, attempt, outcomes,
                   calc, resolved, parsed, converted, ended, stepped>>

Receive(r) == ReceiveFrom(r, Prompts)

\* one call of self.model.generate_content and what analyze_message does
\* with its outcome
AttemptFrom(r, calls) ==
    /\ pc[r] = "attempt"
    /\ \E o \in calls :
        LET step == analyze_step(variant, attempt[r], o, prompt[r], today)
        IN /\ outcomes' = [outcomes EXCEPT ![r] = Append(@, o.kind)]
           /\ pc' = [pc EXCEPT ![r] = step.pc]
           /\ attempt' = [attempt EXCEPT ![r] = step.attempt]
           /\ analysis' = [analysis EXCEPT ![r] = step.analysis]
    /\ UNCHANGED <<variant, GEMINI_AVAILABLE, model_ready, today, prompt, result,
                   calc, resolved, parsed, converted, ended, stepped>>

Attempt(r) == AttemptFrom(r, Outcomes)

\* schedule after analyze_message returned, its result kept in one place for
\* all the requests
Finish_shared(r) ==
    /\ pc[r] = "convert"
    /\ result' = [q \in Reqs |-> schedule_finish(variant, analysis[r], prompt[r], today)]
    /\ pc' = [pc EXCEPT ![r] = "done"]
    /\ UNCHANGED <<variant, GEMINI_AVAILABLE, model_ready, today,
                   prompt, attempt, outcomes, analysis, calc, resolved, parsed, converted,
                   ended, stepped>>

\* schedule after analyze_message returned: normalize, or parse directly
Finish(r) ==
    /\ pc[r] = "convert"
    /\ result' = [result EXCEPT ![r] = schedule_finish(variant, analysis[r], prompt[r], today)]
    /\ pc' = [pc EXCEPT ![r] = "done"]
    /\ UNCHANGED <<variant, GEMINI_AVAILABLE, model_ready, today,
                   prompt, attempt, outcomes, analysis, calc, resolved, parsed, converted, ended, stepped>>

Next == \E r \in Reqs : Receive(r) \/ Attempt(r) \/ Finish(r)

Spec == Init /\ [][Next]_vars

-----------------------------------------------------------------------------
(* Two requests in the server at once, their steps interleaved             *)

PairPrompts == {"call mom", "gym at 1pm tomorrow"}
PairOutcomes ==
    {ErrorOutcome, MalformedOutcome,
     JsonOutcome(Analysis(TRUE, Str("Team sync"), Absent, Str("23:15"), Absent)),
     JsonOutcome(Analysis(TRUE, Absent, Str("2025-07-04"), Absent, Num(90)))}

InitPair ==
    /\ variant \in Variants
    /\ GEMINI_AVAILABLE \in BOOLEAN
    /\ model_ready \in BOOLEAN
    /\ Configured(variant, GEMINI_AVAILABLE, model_ready)
    /\ today \in Todays
    /\ pc = [r \in Reqs |-> "idle"]
    /\ prompt = [r \in Reqs |-> ""]
    /\ attempt = [r \in Reqs |-> 0]
    /\ outcomes = [r \in Reqs |-> <<>>]
    /\ analysis = [r \in Reqs |-> NoneAnalysis]
    /\ result = [r \in Reqs |-> Pending]
    /\ calc = CalcIdle
    /\ resolved = ResolvedIdle
    /\ parsed = ParsedIdle
    /\ converted = ConvertedIdle
    /\ ended = EndedIdle
    /\ stepped = SteppedIdle

PairReceive(r) == ReceiveFrom(r, PairPrompts)

PairAttempt(r) == AttemptFrom(r, PairOutcomes)

NextPair == \E r \in Reqs : PairReceive(r) \/ PairAttempt(r) \/ Finish(r)

SpecPair == InitPair /\ [][NextPair]_vars

----------------------------------------------------------------------------
(* The end-time calculators on their own                                   *)

\* start minutes and durations (in minutes) of the calculators' uses: whole
\* hours within a day, and the same with three quarters of an hour added
MaxDurationHours == 23
CalcMinutes == {0, 30, 59}
CalcDurations == {60 * k + e : k \in 0..MaxDurationHours, e \in {0, 45}}

\* f"{start_hour}:{start_min} {start_ampm}" of a start time
start_time_of(c) == IntStr(c.start_hour) \o ":" \o Pad2(c.start_min) \o " " \o c.start_ampm

\* calculate_end_time on a rendered time: the hour, the minute and the
\* meridiem are read back as parse_tasks_directly reads them from its match
calculate_end_time_of(time_str, hours) ==
    LET Read(m) == calculate_end_time(int(m.hour), int(m.min), upper(m.ampm), hours)
    IN Read(time_search(time_str))

InitCalc ==
    /\ variant \in Variants
    /\ GEMINI_AVAILABLE = (variant # "main")
    /\ model_ready = (variant # "main")
    /\ today = Date(2025, 6, 10)
    /\ pc = [r \in Reqs |-> "off"]
    /\ prompt = [r \in Reqs |-> ""]
    /\ attempt = [r \in Reqs |-> 0]
    /\ outcomes = [r \in Reqs |-> <<>>]
    /\ analysis = [r \in Reqs |-> NoneAnalysis]
    /\ result = [r \in Reqs |-> Pending]
    /\ resolved = ResolvedIdle
    /\ parsed = ParsedIdle
    /\ converted = ConvertedIdle
    /\ ended = EndedIdle
    /\ stepped = SteppedIdle
    /\ calc \in {[pc |-> "start", op |-> "", start_hour |-> h, start_min |-> m,
                  start_ampm |-> a, duration |-> d, end |-> "", back |-> ""] :
                    h \in 1..12, m \in CalcMinutes, a \in {"AM", "PM"}, d \in CalcDurations}

\* end_time = calculate_end_time(start_hour, start_min, start_ampm, duration_hours)
CalcEndHours ==
    /\ calc.pc = "start"
    /\ calc.duration % 60 = 0
    /\ calc' = [calc EXCEPT !.pc = "ended", !.op = "hours",
                            !.end = calculate_end_time(calc.start_hour, calc.start_min,
                                                       calc.start_ampm, calc.duration \div 60)]
    /\ UNCHANGED <<variant, GEMINI_AVAILABLE, model_ready, today,
                   pc, prompt, attempt, outcomes, analysis, result, resolved, parsed, converted, ended, stepped>>

\* end_time = calculate_end_time_from_12h(start_time, duration_minutes)
CalcEndMinutes ==
    /\ calc.pc = "start"
    /\ variant # "main"
    /\ calc' = [calc EXCEPT !.pc = "ended", !.op = "minutes",
                            !.end = calculate_end_time_from_12h(
                                        variant, start_time_of(calc), Num(calc.duration)).value]
    /\ UNCHANGED <<variant, GEMINI_AVAILABLE, model_ready, today,
                   pc, prompt, attempt, outcomes, analysis, result, resolved, parsed, converted, ended, stepped>>

\* the same calculator on its own result, with the duration negated
CalcBack ==
    /\ calc.pc = "ended"
    /\ calc' = [calc EXCEPT !.pc = "back",
                            !.back = IF calc.op = "hours"
                                     THEN calculate_end_time_of(calc.end,
                                                                0 - (calc.duration \div 60))
                                     ELSE calculate_end_time_from_12h(
                                              variant, calc.end, Num(0 - calc.duration)).value]
    /\ UNCHANGED <<variant, GEMINI_AVAILABLE, model_ready, today,
                   pc, prompt, attempt, outcomes, analysis, result, resolved, parsed, converted, ended, stepped>>

NextCalc == CalcEndHours \/ CalcEndMinutes \/ CalcBack

SpecCalc == InitCalc /\ [][NextCalc]_vars

----------------------------------------------------------------------------
(* The date resolver on its own                                            *)

\* reference dates: every day of one week (Tuesday 10 to Monday 16 June
\* 2025), around a leap day, before a leap year, either end of a year
DateTodays ==
    {Date(2025, 6, d) : d \in 10..16}
    \cup {Date(2024, 2, 28), Date(2024, 2, 29), Date(2023, 2, 28), Date(2023, 3, 1),
          Date(2025, 12, 31), Date(2026, 1, 1)}

DatePrompts ==
    {"", "   ", "lunch with Sam at 1pm", "today", "Today and tomorrow", "Dec 25 ToDay",
     "gym tomorrow", "NEXT WEEK", "next week monday", "meet next weekend",
     "see you Monday", "friday or monday", "tues", "thurs 3pm", "friend 5pm", "a month away",
     "wedding", "sunny", "satisfy",
     "Tuesday", "wednesday 9am", "gym on Thu", "Friday", "sat", "sunday brunch",
     "friday may 20", "may 20 6/15", "6/15 2025-07-04",
     "next monday", "next  fri", "next sun", "meeting next friday", "next tuesday",
     "feb 29", "Feb 30", "february 29th", "feb 30 or mar 3", "may 5", "maybe 5",
     "march 31", "june 10", "june 9", "jun 11", "dec 31", "jan 1", "sept 31", "sep 5",
     "nov 0", "apr 31",
     "1/2", "6/9", "5-30", "6/10", "12/31", "2/30", "2-29", "13/1", "0/5", "5/0", "10/100",
     "1/2/25", "1/2/2026", "1/2/123", "1/2/0000", "lunch on 02/29/24", "1/1/12345",
     "2025-06-10", "2012-06-10", "2025/7/4", "2031-01-31", "2024/2/29", "2023-02-29", "2025-13-01", "9999-12-31",
     "99/99/99 2024-02-29", "call 555-1234"}

InitDate ==
    /\ variant \in Variants
    /\ GEMINI_AVAILABLE = (variant # "main")
    /\ model_ready = (variant # "main")
    /\ today \in DateTodays
    /\ pc = [r \in Reqs |-> "off"]
    /\ prompt = [r \in Reqs |-> ""]
    /\ attempt = [r \in Reqs |-> 0]
    /\ outcomes = [r \in Reqs |-> <<>>]
    /\ analysis = [r \in Reqs |-> NoneAnalysis]
    /\ result = [r \in Reqs |-> Pending]
    /\ calc = CalcIdle
    /\ resolved = ResolvedIdle
    /\ parsed = ParsedIdle
    /\ converted = ConvertedIdle
    /\ ended = EndedIdle
    /\ stepped = SteppedIdle

\* date_str = parse_date_from_prompt(prompt)
ResolveDate ==
    /\ resolved.pc = "idle"
    /\ \E p \in DatePrompts :
        LET Resolved(r) == [pc |-> "resolved", prompt |-> p, rule |-> r.rule, date |-> r.date]
        IN resolved' = Resolved(resolve_date(p, today))
    /\ UNCHANGED <<variant, GEMINI_AVAILABLE, model_ready, today,
                   pc, prompt, attempt, outcomes, analysis, result, calc, parsed, converted, ended, stepped>>

NextDate == ResolveDate

SpecDate == InitDate /\ [][NextDate]_vars

----------------------------------------------------------------------------
(* The direct parse on its own                                             *)

\* prompts made of an activity, a time, a duration and a date, each of which
\* may be missing, and prompts naming several activities
ParseActivities ==
    {"", "call mom", "lunch with Sam", "gym", "class 101", "meeting with Dana", "dentist"}
ParseTimes == {"", " at 1pm", " at 11:30am", " at 11pm", " at 12 AM"}
ParseDurations == {"", " for 2 hours", " for 1 hour"}
ParseDates == {"", " tomorrow"}
ParseSpecials ==
    {"meeting with Dana at 11:30am and lunch with Sam at 1pm",
     "lunch with Sam at 1pm, then gym at 3pm",
     "lunch with Sam at 1pm tomorrow", "gym at 7am for 2 hours",
     "one two three four five six seven", "  call   mom\tnow ", "   ",
     "dentist 13pm friday", "gym 1:5pm today",
     "doctor 6pm meet Al 5pm class 3 4pm gym 2pm lunch with Sam at 1pm"}
ParsePrompts ==
    ParseSpecials
    \cup {a \o t \o u \o d : a \in ParseActivities, t \in ParseTimes,
                             u \in ParseDurations, d \in ParseDates}

InitParse ==
    /\ variant \in Variants
    /\ GEMINI_AVAILABLE = (variant # "main")
    /\ model_ready = (variant # "main")
    /\ today \in Todays
    /\ pc = [r \in Reqs |-> "off"]
    /\ prompt = [r \in Reqs |-> ""]
    /\ attempt = [r \in Reqs |-> 0]
    /\ outcomes = [r \in Reqs |-> <<>>]
    /\ analysis = [r \in Reqs |-> NoneAnalysis]
    /\ result = [r \in Reqs |-> Pending]
    /\ calc = CalcIdle
    /\ resolved = ResolvedIdle
    /\ converted = ConvertedIdle
    /\ ended = EndedIdle
    /\ stepped = SteppedIdle
    /\ parsed \in {[pc |-> "start", prompt |-> p, tasks |-> <<>>] : p \in ParsePrompts}

\* tasks = parse_tasks_directly(prompt)
ParseDirectly ==
    /\ parsed.pc = "start"
    /\ parsed' = [parsed EXCEPT !.pc = "parsed",
                                !.tasks = parse_tasks_directly(variant, parsed.prompt, today)]
    /\ UNCHANGED <<variant, GEMINI_AVAILABLE, model_ready, today,
                   pc, prompt, attempt, outcomes, analysis, result, calc, resolved, converted, ended, stepped>>

NextParse == ParseDirectly

SpecParse == InitParse /\ [][NextParse]_vars

----------------------------------------------------------------------------
(* The external-hint normalizer on its own                                 *)

\* hints naming an event at each minute of the day "HH:MM", with and without
\* a date and a duration
ConvHours == 0..23
ConvMinutes == 0..59
ConvDates == {Absent, Str("2025-07-04")}
ConvDurations == {Absent, Num(60)}
ConvHints ==
    {[pc |-> "start", hours |-> h, minutes |-> m,
      analysis |-> Analysis(TRUE, Str("Team sync"), d,
                            Str(Pad2(h) \o ":" \o Pad2(m)), u),
      prompt |-> "call mom", raised |-> FALSE, tasks |-> <<>>] :
        h \in ConvHours, m \in ConvMinutes, d \in ConvDates, u \in ConvDurations}

\* hints whose start_time is missing, null, empty, out of range or not HH:MM,
\* and hints whose duration is null, with and without a time in the prompt
ConvOddStarts ==
    {Absent, None, Str(""), Str("25:99"), Str("09:60"), Str("2pm"), Str("14:00:00"),
     Str("09:30"), Str("23:15")}
ConvOddDurations == {Absent, None, Num(60), Num(90)}
ConvOddPrompts == {"call mom", "gym at 1pm", "call mom friday"}
ConvOddHints ==
    {[pc |-> "start", hours |-> 0, minutes |-> 0,
      analysis |-> Analysis(TRUE, Str("Team sync"), d, s, u),
      prompt |-> p, raised |-> FALSE, tasks |-> <<>>] :
        s \in ConvOddStarts, p \in ConvOddPrompts, d \in ConvDates, u \in ConvOddDurations}

InitConv ==
    /\ variant \in {"gemini", "geminiy"}
    /\ GEMINI_AVAILABLE = TRUE
    /\ model_ready = TRUE
    /\ today \in Todays
    /\ pc = [r \in Reqs |-> "off"]
    /\ prompt = [r \in Reqs |-> ""]
    /\ attempt = [r \in Reqs |-> 0]
    /\ outcomes = [r \in Reqs |-> <<>>]
    /\ analysis = [r \in Reqs |-> NoneAnalysis]
    /\ result = [r \in Reqs |-> Pending]
    /\ calc = CalcIdle
    /\ resolved = ResolvedIdle
    /\ parsed = ParsedIdle
    /\ converted \in ConvHints \cup ConvOddHints
    /\ ended = EndedIdle
    /\ stepped = SteppedIdle

\* tasks = convert_analysis_to_tasks(analysis_result, prompt)
Convert ==
    /\ converted.pc = "start"
    /\ LET Returned(conv) ==
               [converted EXCEPT !.pc = "converted", !.raised = conv.raised,
                                 !.tasks = conv.tasks]
       IN converted' = Returned(convert_analysis_to_tasks(variant, converted.analysis,
                                                          converted.prompt, today))
    /\ UNCHANGED <<variant, GEMINI_AVAILABLE, model_ready, today,
                   pc, prompt, attempt, outcomes, analysis, result, calc, resolved, parsed, ended, stepped>>

NextConv == Convert

SpecConv == InitConv /\ [][NextConv]_vars

-----------------------------------------------------------------------------
(* parse_tasks_directly statement by statement: the date and the duration, *)
(* each recognizer in turn, the generic fallback and the return            *)

\* stepped.pc is "Init" at the call, "DateResolved" once date_str and
\* default_duration are set, "PatternsEvaluated" after the last recognizer,
\* "Done" at the return. date_runs counts the calls of parse_date_from_prompt,
\* ran lists the recognizers that have run, origin names what appended each
\* task.
InitSteps ==
    /\ variant \in Variants
    /\ GEMINI_AVAILABLE = FALSE
    /\ model_ready = FALSE
    /\ today \in Todays
    /\ pc = [r \in Reqs |-> "off"]
    /\ prompt = [r \in Reqs |-> ""]
    /\ attempt = [r \in Reqs |-> 0]
    /\ outcomes = [r \in Reqs |-> <<>>]
    /\ analysis = [r \in Reqs |-> NoneAnalysis]
    /\ result = [r \in Reqs |-> Pending]
    /\ calc = CalcIdle
    /\ resolved = ResolvedIdle
    /\ parsed = ParsedIdle
    /\ converted = ConvertedIdle
    /\ ended = EndedIdle
    /\ stepped \in {[SteppedIdle EXCEPT !.pc = "Init", !.prompt = p] : p \in ParsePrompts}

\* date_str = parse_date_from_prompt(prompt), then default_duration
StepResolveDate ==
    /\ stepped.pc = "Init"
    /\ stepped' = [stepped EXCEPT !.pc = "DateResolved",
                                  !.date_str = parse_date_from_prompt(stepped.prompt, today),
                                  !.date_runs = @ + 1,
                                  !.default_duration = duration_hours(stepped.prompt)]
    /\ UNCHANGED <<variant, GEMINI_AVAILABLE, model_ready, today,
                   pc, prompt, attempt, outcomes, analysis, result, calc, resolved, parsed,
                   converted, ended>>

\* the next recognizer: its re.search and, on a match, tasks.append
StepRecognize ==
    /\ stepped.pc = "DateResolved"
    /\ LET Ran(recognizer, found, last) ==
               [stepped EXCEPT !.pc = IF last THEN "PatternsEvaluated" ELSE "DateResolved",
                               !.ran = Append(@, recognizer),
                               !.tasks = @ \o found,
                               !.origin = @ \o [j \in 1..Len(found) |-> recognizer]]
           Run(recognizer, last) ==
               Ran(recognizer,
                   recognizer_step(recognizer, stepped.prompt, stepped.default_duration,
                                   stepped.date_str),
                   last)
           Turn(order, k) == Run(order[k], k = Len(order))
       IN stepped' = Turn(recognizers(variant), Len(stepped.ran) + 1)
    /\ UNCHANGED <<variant, GEMINI_AVAILABLE, model_ready, today,
                   pc, prompt, attempt, outcomes, analysis, result, calc, resolved, parsed,
                   converted, ended>>

\* "if not tasks": the generic Task; then return tasks
StepFallback ==
    /\ stepped.pc = "PatternsEvaluated"
    /\ stepped' =
           IF Len(stepped.tasks) = 0
           THEN [stepped EXCEPT !.pc = "Done",
                                !.tasks = <<generic_task(stepped.prompt,
                                                         stepped.default_duration,
                                                         stepped.date_str)>>,
                                !.origin = <<"generic">>]
           ELSE [stepped EXCEPT !.pc = "Done"]
    /\ UNCHANGED <<variant, GEMINI_AVAILABLE, model_ready, today,
                   pc, prompt, attempt, outcomes, analysis, result, calc, resolved, parsed,
                   converted, ended>>

NextSteps == StepResolveDate \/ StepRecognize \/ StepFallback

SpecSteps == InitSteps /\ [][NextSteps]_vars

-----------------------------------------------------------------------------
(* calculate_end_time_from_12h on its own: start strings it can and cannot *)
(* parse, durations that are and are not numbers                            *)

EndStarts ==
    {"2:30 PM", "9:05 AM", "12:00 AM", "11:30 PM",
     "2:30", "230 PM", "x:30 PM", "2:xx PM", "2:30:00 PM", "PM", ""}
EndDurations == {Num(0), Num(45), Num(60), Num(90), None, Str("sixty")}

InitEnd ==
    /\ variant \in {"gemini", "geminiy"}
    /\ GEMINI_AVAILABLE = TRUE
    /\ model_ready = TRUE
    /\ today \in Todays
    /\ pc = [r \in Reqs |-> "off"]
    /\ prompt = [r \in Reqs |-> ""]
    /\ attempt = [r \in Reqs |-> 0]
    /\ outcomes = [r \in Reqs |-> <<>>]
    /\ analysis = [r \in Reqs |-> NoneAnalysis]
    /\ result = [r \in Reqs |-> Pending]
    /\ calc = CalcIdle
    /\ resolved = ResolvedIdle
    /\ parsed = ParsedIdle
    /\ converted = ConvertedIdle
    /\ ended \in {[pc |-> "start", start_time_str |-> s, duration_minutes |-> u,
                    raised |-> FALSE, value |-> ""] :
                       s \in EndStarts, u \in EndDurations}
    /\ stepped = SteppedIdle

\* end_time = calculate_end_time_from_12h(start_time_str, duration_minutes)
EndTime ==
    /\ ended.pc = "start"
    /\ LET Returned(r) ==
               [ended EXCEPT !.pc = "ended", !.raised = r.raised, !.value = r.value]
       IN ended' = Returned(calculate_end_time_from_12h(variant, ended.start_time_str,
                                                        ended.duration_minutes))
    /\ UNCHANGED <<variant, GEMINI_AVAILABLE, model_ready, today,
                   pc, prompt, attempt, outcomes, analysis, result, calc, resolved, parsed,
                   converted, stepped>>

NextEnd == EndTime

SpecEnd == InitEnd /\ [][NextEnd]_vars

----------------------------------------------------------------------------
(* Properties                                                              *)

\* "H:MM AM|PM": the hour 1..12 unpadded, the minute 00..59 in two digits,
\* the meridiem in capitals
WellFormedTime(s) ==
    \E h \in 1..2 :
        /\ Len(s) = h + 6
        /\ RunDigits(s, 1) = h
        /\ Char(s, 1) # "0"
        /\ int(Sub(s, 1, h)) \in 1..12
        /\ Char(s, h + 1) = ":"
        /\ RunDigits(s, h + 2) = 2
        /\ int(Sub(s, h + 2, h + 3)) \in 0..59
        /\ Char(s, h + 4) = " "
        /\ Sub(s, h + 5, h + 6) \in {"AM", "PM"}

\* "YYYY-MM-DD" naming a day of the calendar
WellFormedDate(s) ==
    /\ Len(s) = 10
    /\ RunDigits(s, 1) = 4 /\ Char(s, 5) = "-"
    /\ RunDigits(s, 6) = 2 /\ Char(s, 8) = "-"
    /\ RunDigits(s, 9) = 2
    /\ int(Sub(s, 6, 7)) \in 1..12
    /\ int(Sub(s, 9, 10)) \in 1..monthrange(int(Sub(s, 1, 4)), int(Sub(s, 6, 7)))

\* the tasks of the requests that schedule has answered
Answered == {r \in Reqs : pc[r] = "done"}
TasksOf(r) == {result[r].tasks[k] : k \in 1..Len(result[r].tasks)}

\* C1: every answer of schedule, whatever the prompt and whatever the
\* analyzer did, holds at least one task; so does parse_tasks_directly, whose
\* result the answer is whenever direct parsing ran.
C1_AtLeastOneTask ==
    \A r \in Answered : Len(result[r].tasks) >= 1

\* the empty prompt answered by direct parsing with the one generic task
C1_Witness ==
    \E r \in Answered :
        prompt[r] = "" /\ result[r].direct_runs = 1 /\ Len(result[r].tasks) = 1

\* C2: start_time and end_time of every task schedule returns read
\* "H:MM AM|PM" with the hour in 1..12 and the minute in 00..59.
C2_TimesWellFormed ==
    \A r \in Answered : \A t \in TasksOf(r) :
        WellFormedTime(t.start_time) /\ WellFormedTime(t.end_time)

\* C3: every task schedule returns has a non-empty name, the empty and the
\* blank prompt included.
C3_NamesNonEmpty ==
    \A r \in Answered : \A t \in TasksOf(r) : t.name # ""

\* C4: parse_date_from_prompt returns "YYYY-MM-DD" naming a real day of the
\* calendar, for every prompt and every reference date.
C4_DateWellFormed ==
    resolved.pc = "resolved" => WellFormedDate(resolved.date)

\* C5: schedule never raises: whatever fails in the analyzer, in the parsing
\* of its response or in the normalizer, the request ends with a task list.
C5_NeverRaises ==
    \A r \in Answered : result[r].status = "returned"

\* the normalizer of src/main_gemini.py raised and the request was answered
C5_Witness ==
    \E r \in Answered :
        /\ analysis[r].kind = "dict" /\ analysis[r].success
        /\ convert_analysis_to_tasks(variant, analysis[r], prompt[r], today).raised
        /\ result[r].status = "returned"

\* C6: when all three calls of the analyzer failed, the answer of schedule
\* is the result of parse_tasks_directly on the same prompt.
C6_DirectAfterThreeFailures ==
    \A r \in Answered :
        outcomes[r] = <<"error", "error", "error">>
            => result[r].tasks = parse_tasks_directly(variant, prompt[r], today)

\* the tasks the external path of request r yielded: those of the normalizer
\* on the dictionary of the analyzer, none where it was not run or it raised
ExternalTasks(r) ==
    LET Yield(conv) == IF conv.raised THEN <<>> ELSE conv.tasks
    IN IF variant # "main" /\ GEMINI_AVAILABLE
          /\ analysis[r].kind = "dict" /\ analysis[r].success
       THEN Yield(convert_analysis_to_tasks(variant, analysis[r], prompt[r], today))
       ELSE <<>>

C8_AtMostThreeAttempts ==
    \A r \in Reqs :
        /\ Len(outcomes[r]) <= MaxAttempts
        /\ \A k \in 1..(Len(outcomes[r]) - 1) : outcomes[r][k] = "error"
        /\ pc[r] = "attempt" => \A k \in 1..Len(outcomes[r]) : outcomes[r][k] = "error"
        /\ pc[r] = "convert" => analysis[r].kind = "dict"

\* two failed calls, then a third that succeeded and was handed on
C8_Witness ==
    \E r \in Reqs :
        outcomes[r] = <<"error", "error", "json">> /\ pc[r] = "convert"

\* minutes after midnight of a 12-hour start time
MinutesOfDay(c) ==
    ((c.start_hour % 12) + (IF c.start_ampm = "PM" THEN 12 ELSE 0)) * 60 + c.start_min

\* the 12-hour rendering of a number of minutes, taken modulo 24 hours
Clock12(total) ==
    LET h24 == (total % 1440) \div 60
    IN IntStr(IF h24 % 12 = 0 THEN 12 ELSE h24 % 12) \o ":" \o Pad2(total % 60)
       \o " " \o (IF h24 >= 12 THEN "PM" ELSE "AM")

\* C9: the end time is the 12-hour rendering of (start + duration) modulo 24
\* hours, for every start time and every duration within a day.
C9_WrapsAroundMidnight ==
    calc.pc \in {"ended", "back"} => calc.end = Clock12(MinutesOfDay(calc) + calc.duration)

\* C10: the calculator applied to its own result with the duration negated
\* renders the start time again, midnight crossed or not.
C10_RoundTrip ==
    calc.pc = "back" => calc.back = start_time_of(calc)

\* C11: a prompt containing "today" resolves to the reference date; otherwise
\* one containing "tomorrow" to the day after it; otherwise, "next week" not
\* being in it, one containing a weekday name resolves to a day 1 to 7 days
\* after the reference date that falls on a weekday the prompt names, so
\* naming the weekday of the reference date gives the day a week later.
C11_DateBasics ==
    LET Named(pl) == {days_of_week[k][2] : k \in WeekdayKeysIn(pl)}
        Basics(pl) ==
            IF Contains(pl, "today") THEN resolved.date = strftime(today)
            ELSE IF Contains(pl, "tomorrow") THEN resolved.date = strftime(NextDay(today))
            ELSE IF Contains(pl, "next week") THEN TRUE
            ELSE \A k \in WeekdayKeysIn(pl) :
                    \E n \in 1..7 :
                        /\ resolved.date = strftime(AddDays(today, n))
                        /\ weekday(AddDays(today, n)) \in Named(pl)
    IN resolved.pc = "resolved" => Basics(lower(resolved.prompt))

\* "tues" on a Tuesday resolved to the Tuesday of the week after
C11_Witness ==
    /\ resolved.pc = "resolved" /\ resolved.prompt = "tues"
    /\ weekday(today) = 1
    /\ resolved.date = strftime(AddDays(today, 7))

\* C12: a prompt with "next <weekday>" in it, and none of "today", "tomorrow"
\* and "next week", resolves to a day 8 to 14 days after the reference date
\* that falls on the weekday named after "next".
C12_NextWeekdaySkipsAWeek ==
    LET Anchored(pl, nd) ==
            (/\ nd.ok
             /\ ~Contains(pl, "today") /\ ~Contains(pl, "tomorrow")
             /\ ~Contains(pl, "next week"))
            => \E n \in 8..14 :
                  /\ resolved.date = strftime(AddDays(today, n))
                  /\ weekday(AddDays(today, n)) = days_of_week_get(nd.day_name)
        Of(pl) == Anchored(pl, next_day_search(pl))
    IN resolved.pc = "resolved" => Of(lower(resolved.prompt))

\* C13: the date is the one of the first rule, in the order today, tomorrow,
\* next week, weekday name, month-name day, numeric M/D, numeric YYYY-M-D,
\* default, that matches the prompt and accepts its candidate.
C13_FirstRuleWins ==
    LET First(rules) == rules[Least({k \in DOMAIN rules : rules[k].ok})].date
        WeekdayDate(wk) ==
            IF wk = {} THEN ""
            ELSE FormatAfter(today, days_until(days_of_week[Least(wk)][2], today))
        MonthDate(pl, mk) ==
            IF mk = {} THEN ""
            ELSE FormatCandidate(month_candidate(pl, Least(mk), today))
        InOrder(pl, wk, mk, nc, ic) ==
            << [ok |-> Contains(pl, "today"), date |-> strftime(today)],
               [ok |-> Contains(pl, "tomorrow"), date |-> strftime(AddDays(today, 1))],
               [ok |-> Contains(pl, "next week"), date |-> strftime(AddDays(today, 7))],
               [ok |-> wk # {}, date |-> WeekdayDate(wk)],
               [ok |-> mk # {}, date |-> MonthDate(pl, mk)],
               [ok |-> nc.ok, date |-> FormatCandidate(nc)],
               [ok |-> ic.ok, date |-> FormatCandidate(ic)],
               [ok |-> TRUE, date |-> strftime(AddDays(today, 1))] >>
        Of(pl) ==
            InOrder(pl, WeekdayKeysIn(pl),
                    {k \in 1..Len(month_names) : month_candidate(pl, k, today).ok},
                    numeric_candidate(resolved.prompt, today),
                    iso_candidate(resolved.prompt))
    IN resolved.pc = "resolved" => resolved.date = First(Of(lower(resolved.prompt)))

\* a prompt with both words resolved by the rule for "today"
C13_Witness ==
    /\ resolved.pc = "resolved" /\ resolved.prompt = "Today and tomorrow"
    /\ resolved.date = strftime(today)

\* the number of days of a month
DaysIn(year, month) ==
    IF month = 2 THEN (IF isleap(year) THEN 29 ELSE 28)
    ELSE IF month \in {4, 6, 9, 11} THEN 30 ELSE 31

\* C14: where no earlier rule applies, "<month> <day>" resolves to that month
\* and day of the reference year, or of the year after it when the day lies
\* strictly before the reference date; the candidate is accepted exactly when
\* the day is within the month of that year, otherwise the rule is skipped.
C14_MonthDayRule ==
    LET Year(month, day) ==
            IF month < today.month \/ (month = today.month /\ day < today.day)
            THEN today.year + 1 ELSE today.year
        Accepted(month, m) ==
            m.ok /\ 1 <= m.day /\ m.day <= DaysIn(Year(month, m.day), month)
        Pick(M, acc) ==
            IF acc = {} THEN resolved.rule # "month day"
            ELSE /\ resolved.rule = "month day"
                 /\ resolved.date =
                        FormatYMD(Year(month_names[Least(acc)][2], M[Least(acc)].day),
                                  month_names[Least(acc)][2], M[Least(acc)].day)
        Rule(M) == Pick(M, {k \in DOMAIN M : Accepted(month_names[k][2], M[k])})
        Of(pl) ==
            (/\ ~Contains(pl, "today") /\ ~Contains(pl, "tomorrow")
             /\ ~Contains(pl, "next week") /\ WeekdayKeysIn(pl) = {})
            => Rule([k \in 1..Len(month_names) |-> month_search(pl, month_names[k][1])])
    IN resolved.pc = "resolved" => Of(lower(resolved.prompt))

\* "feb 29" resolved in a leap year reached by rolling over to the next year
C14_Witness ==
    /\ resolved.pc = "resolved" /\ resolved.prompt = "feb 29"
    /\ today = Date(2023, 3, 1)
    /\ resolved.date = "2024-02-29"

\* C15: a prompt that is a numeric YYYY-M-D or YYYY/M/D naming a day of the
\* calendar resolves to that year, month and day.
C15_IsoDateResolvesToItself ==
    LET p == resolved.prompt
        Sep(c) == c \in {"-", "/"}
        Real(year, month, day) ==
            (month \in 1..12 /\ day >= 1 /\ day <= DaysIn(year, month))
            => resolved.date = FormatYMD(year, month, day)
        Shaped(n2, n3) ==
            (/\ RunDigits(p, 1) = 4 /\ Sep(Char(p, 5))
             /\ n2 \in 1..2 /\ Sep(Char(p, 6 + n2))
             /\ n3 \in 1..2 /\ Len(p) = 6 + n2 + n3)
            => Real(int(Sub(p, 1, 4)), int(Sub(p, 6, 5 + n2)),
                    int(Sub(p, 7 + n2, 6 + n2 + n3)))
        Of(n2) == Shaped(n2, RunDigits(p, 7 + n2))
    IN resolved.pc = "resolved" => Of(RunDigits(p, 6))

\* the recognizers that match a prompt, in the order they are run, each with
\* its label and the time it bound
Recognized(v, p) ==
    LET Bound(m, label) ==
            [ok |-> m.ok, name |-> label,
             start_hour |-> int(m.hour), start_min |-> int(m.min),
             start_ampm |-> upper(m.ampm)]
        Lunch(m) == Bound(m, "Lunch with " \o m.subject)
        Class(m) == Bound(m, "Class " \o m.subject)
        Meeting(m) == Bound(m, "Meeting with " \o m.subject)
        Appointment(m) == Bound(m, capitalize(m.subject) \o " appointment")
    IN SelectSeq(<<Lunch(lunch_search(p)), Bound(gym_search(p), "Gym workout"),
                   Class(class_search(p)), Meeting(meeting_search(p))>>
                 \o (IF v = "geminiy" THEN <<Appointment(appointment_search(p))>> ELSE <<>>),
                 LAMBDA b : b.ok)

\* a time of the clock: the hour 1..12 and the minute 0..59
ClockTime(b) == b.start_hour \in 1..12 /\ b.start_min \in 0..59

\* C16: a prompt that matches exactly one recognizer, with a time T of the
\* clock, gives exactly one task: named by the recognizer's label, starting at
\* T with a missing minute read as 00, ending N hours after T on the 12-hour
\* clock (N from "for N hour(s)", 1 without it), dated by the date resolver.
C16_OneRecognizerOneTask ==
    LET One(b, n, date_str) ==
            parsed.tasks =
                <<[name |-> b.name,
                   start_time |-> start_time_of(b),
                   end_time |-> Clock12(MinutesOfDay(b) + 60 * n),
                   date |-> date_str]>>
        Of(R) ==
            (Len(R) = 1 /\ ClockTime(R[1]))
            => One(R[1], duration_hours(parsed.prompt),
                   parse_date_from_prompt(parsed.prompt, today))
    IN parsed.pc = "parsed" => Of(Recognized(variant, parsed.prompt))

\* C17: a prompt that k >= 1 recognizers match gives exactly k tasks, one per
\* matching recognizer with its label and the time it bound, all k with the
\* one date the date resolver gives for the prompt.
C17_OneTaskPerRecognizer ==
    LET Each(R, date_str) ==
            /\ Len(parsed.tasks) = Len(R)
            /\ \A j \in 1..Len(R) :
                  /\ parsed.tasks[j].name = R[j].name
                  /\ parsed.tasks[j].start_time = start_time_of(R[j])
                  /\ parsed.tasks[j].date = date_str
        Of(R) == Len(R) >= 1 => Each(R, parse_date_from_prompt(parsed.prompt, today))
    IN parsed.pc = "parsed" => Of(Recognized(variant, parsed.prompt))

\* the meeting and the lunch of one prompt parsed into two tasks of one date
C17_Witness ==
    /\ parsed.pc = "parsed"
    /\ parsed.prompt = "meeting with Dana at 11:30am and lunch with Sam at 1pm"
    /\ Len(parsed.tasks) = 2
    /\ parsed.tasks[1].start_time = "1:00 PM" /\ parsed.tasks[2].start_time = "11:30 AM"
    /\ parsed.tasks[1].date = parsed.tasks[2].date

\* C18: a prompt with no time in it, which no recognizer matches, gives
\* exactly one task from 12:00 PM to 1:00 PM named by the first five words of
\* the prompt joined by single spaces, by all its words when fewer than five.
C18_GenericTask ==
    LET Named(words) ==
            /\ Len(parsed.tasks) = 1
            /\ parsed.tasks[1].start_time = "12:00 PM"
            /\ parsed.tasks[1].end_time = "1:00 PM"
            /\ parsed.tasks[1].name =
                   join([k \in 1..(IF Len(words) < 5 THEN Len(words) ELSE 5) |-> words[k]], " ")
        Of(time_match, R) == (~time_match.ok /\ Len(R) = 0) => Named(split(parsed.prompt))
    IN parsed.pc = "parsed"
          => Of(time_search(parsed.prompt), Recognized(variant, parsed.prompt))

\* seven words with no time parsed into the task named by the first five
C18_Witness ==
    /\ parsed.pc = "parsed"
    /\ parsed.prompt = "one two three four five six seven"
    /\ parsed.tasks = <<[name |-> "one two three four five", start_time |-> "12:00 PM",
                         end_time |-> "1:00 PM", date |-> strftime(NextDay(today))]>>

\* C19: the normalizer returns no task, and does not raise, whenever the
\* event_name of the hint is absent, null or empty, whatever the other fields
\* of the hint; schedule then answers with parse_tasks_directly(prompt).  In
\* every other case the normalizer returns at most one task.
C19_NoNameNoTask ==
    \A r \in Answered :
        LET Unnamed(conv) ==
                /\ ~Truthy(analysis[r].event_name)
                      => /\ ~conv.raised /\ conv.tasks = <<>>
                         /\ result[r].direct_runs = 1
                         /\ result[r].tasks = parse_tasks_directly(variant, prompt[r], today)
                /\ Len(conv.tasks) <= 1
        IN (variant # "main" /\ GEMINI_AVAILABLE
            /\ analysis[r].kind = "dict" /\ analysis[r].success)
           => Unnamed(convert_analysis_to_tasks(variant, analysis[r], prompt[r], today))

\* a hint with a date and a start time and a null event_name, answered by
\* direct parsing
C19_Witness ==
    \E r \in Answered :
        /\ analysis[r].kind = "dict" /\ analysis[r].success
        /\ analysis[r].event_name = None
        /\ Truthy(analysis[r].date) /\ Truthy(analysis[r].start_time)
        /\ result[r].direct_runs = 1

\* C20: a hint start_time "HH:MM", HH in 00..23 and MM in 00..59, is rendered
\* on the 12-hour clock: 00:MM as 12:MM AM, 01..11 as H:MM AM, 12:MM as
\* 12:MM PM, 13..23 as (HH-12):MM PM.
C20_HintTimeOn12HourClock ==
    LET Rendered(h, m) ==
            IF h = 0 THEN "12:" \o Pad2(m) \o " AM"
            ELSE IF h <= 11 THEN IntStr(h) \o ":" \o Pad2(m) \o " AM"
            ELSE IF h = 12 THEN "12:" \o Pad2(m) \o " PM"
            ELSE IntStr(h - 12) \o ":" \o Pad2(m) \o " PM"
        HH_MM(h, m) == Str(Pad2(h) \o ":" \o Pad2(m))
    IN (/\ converted.pc = "converted"
        /\ converted.analysis.start_time = HH_MM(converted.hours, converted.minutes)
        /\ (variant = "geminiy" \/ Truthy(converted.analysis.date)))
       => /\ ~converted.raised
          /\ Len(converted.tasks) = 1
          /\ converted.tasks[1].start_time = Rendered(converted.hours, converted.minutes)

\* the hint "23:15" rendered "11:15 PM"
C20_Witness ==
    /\ converted.pc = "converted"
    /\ converted.hours = 23 /\ converted.minutes = 15
    /\ converted.analysis.start_time = Str("23:15")
    /\ Len(converted.tasks) = 1
    /\ converted.tasks[1].start_time = "11:15 PM"

\* the bounded record of a 12-hour time "H:MM AM|PM" read from its text
TimeOf(text) ==
    LET Read(m) == [ok |-> m.ok, start_hour |-> int(m.hour), start_min |-> int(m.min),
                    start_ampm |-> upper(m.ampm)]
    IN Read(time_search(text))

\* a hint start_time that is a 24-hour "HH:MM", HH in 00..23, MM in 00..59
WellFormed24(v) ==
    /\ v.t = "str"
    /\ Len(v.s) = 5
    /\ Char(v.s, 3) = ":"
    /\ \A i \in {1, 2, 4, 5} : IsDigit(Char(v.s, i))
    /\ int(Sub(v.s, 1, 2)) <= 23
    /\ int(Sub(v.s, 4, 5)) <= 59

\* C21: a hint with an event_name and a duration that is not null gives
\* exactly one task; the task carries the hint's date when the hint has one,
\* and otherwise the date the resolver reads from the original prompt.
C21_DateFromHintOrPrompt ==
    LET Dated(d) == IF Truthy(d) THEN d.s
                    ELSE parse_date_from_prompt(converted.prompt, today)
    IN (converted.pc = "converted" /\ converted.analysis.duration # None)
       => /\ ~converted.raised
          /\ Len(converted.tasks) = 1
          /\ converted.tasks[1].date = Dated(converted.analysis.date)

\* C22: when the hint start_time is missing or is not a well-formed 24-hour
\* HH:MM, the task starts at the first time of day of the original prompt,
\* and at 12:00 PM when the prompt has none.
C22_StartTimeFallback ==
    LET Expected(b) == IF b.ok THEN Clock12(MinutesOfDay(b)) ELSE "12:00 PM"
    IN (/\ converted.pc = "converted"
        /\ ~WellFormed24(converted.analysis.start_time)
        /\ Len(converted.tasks) = 1)
       => converted.tasks[1].start_time = Expected(TimeOf(converted.prompt))

\* C23: for a well-formed hint start_time, the task ends d minutes after it
\* starts, d the hint's duration, and 60 when the duration is absent or null
\* (stated for the tasks that end before midnight).
C23_DurationOrSixty ==
    LET Minutes(u) == IF u.t = "int" THEN u.n ELSE 60
        Ends(t, from, d) == from + d < 1440 => t.end_time = Clock12(from + d)
        Of(d) == /\ ~converted.raised
                 /\ Len(converted.tasks) = 1
                 /\ Ends(converted.tasks[1],
                         MinutesOfDay(TimeOf(converted.tasks[1].start_time)), d)
    IN (/\ converted.pc = "converted"
        /\ WellFormed24(converted.analysis.start_time)
        /\ (variant = "geminiy" \/ Truthy(converted.analysis.date)))
       => Of(Minutes(converted.analysis.duration))

\* a start string the calculator can read: "H:MM" or "HH:MM", digits on both
\* sides of one colon, followed by a meridiem word
ReadableStart(s) ==
    LET Digits(w) == w # "" /\ \A i \in 1..Len(w) : IsDigit(Char(w, i))
        Clock(hm) == Len(hm) = 2 /\ Digits(hm[1]) /\ Digits(hm[2])
        Parts(time_parts) == Len(time_parts) = 2 /\ Clock(split_on(time_parts[1], ":"))
    IN Parts(split(s))

\* C24: on a start string it cannot parse and on a duration that is not a
\* number calculate_end_time_from_12h fails with an error; it returns no time
\* string, and not the start string either.
C24_FailsOnMalformedInput ==
    (/\ ended.pc = "ended"
     /\ (~ReadableStart(ended.start_time_str) \/ ended.duration_minutes.t # "int"))
       => ended.raised

RECURSIVE AnalyzedAlone(_, _, _, _)
\* analyze_message run on its own over the calls whose outcome kinds are
\* listed, hint being the dictionary of the call that answered
AnalyzedAlone(kinds, at, hint, message) ==
    LET Then(step) == IF Len(kinds) = 1 THEN step.analysis
                      ELSE AnalyzedAlone(Tail(kinds), step.attempt, hint, message)
    IN IF kinds = <<>> THEN NoneAnalysis
       ELSE Then(analyze_step(variant, at, [kind |-> Head(kinds), hint |-> hint],
                              message, today))

\* what schedule returns to a request that is alone in the server, for the
\* prompt, the reference date and the analyzer outcomes of request r
ScheduledAlone(r) ==
    IF variant = "main" \/ ~GEMINI_AVAILABLE
    THEN direct_result(variant, prompt[r], today)
    ELSE IF ~model_ready
    THEN schedule_finish(variant, fallback_extraction(prompt[r], today), prompt[r], today)
    ELSE schedule_finish(variant,
                         AnalyzedAlone(outcomes[r], 0, analysis[r], prompt[r]),
                         prompt[r], today)

\* a step of the server is a step of one request: the other requests keep
\* what they hold, and the module-level values stay as import left them
OneRequestSteps ==
    /\ GEMINI_AVAILABLE' = GEMINI_AVAILABLE
    /\ model_ready' = model_ready
    /\ variant' = variant
    /\ \E r \in Reqs : \A q \in Reqs \ {r} :
          /\ pc'[q] = pc[q] /\ prompt'[q] = prompt[q] /\ attempt'[q] = attempt[q]
          /\ outcomes'[q] = outcomes[q] /\ analysis'[q] = analysis[q]
          /\ result'[q] = result[q]

\* C25: with two requests in the server and their steps interleaved in any
\* order, each request is answered what it would be answered alone, for its
\* own prompt, the reference date and its own analyzer outcomes; a step
\* touches one request only, and GEMINI_AVAILABLE and the analyzer's model
\* are never changed.
C25_RequestsShareNothing ==
    /\ [](\A r \in Reqs : result[r] = (IF pc[r] = "done" THEN ScheduledAlone(r)
                                        ELSE Pending))
    /\ [][OneRequestSteps]_vars

\* both requests answered, on different prompts and after different analyzer
\* outcomes, with different tasks
C25_Witness ==
    /\ pc[1] = "done" /\ pc[2] = "done"
    /\ prompt[1] = "call mom" /\ prompt[2] = "gym at 1pm tomorrow"
    /\ outcomes[1] = <<"error", "json">> /\ outcomes[2] = <<"malformed">>
    /\ result[1].tasks # result[2].tasks
    /\ result[1].status = "returned" /\ result[2].status = "returned"

\* the places in p of the elements of q, 0 for an element that is not in p
Places(q, p) ==
    [j \in 1..Len(q) |->
        IF \E k \in 1..Len(p) : p[k] = q[j]
        THEN CHOOSE k \in 1..Len(p) : p[k] = q[j]
        ELSE 0]

\* what holds of a run of parse_tasks_directly at each of its phases
ParsePhase(s) ==
    LET Fixed == <<"lunch", "gym", "class", "meeting", "appointment">>
        Rising(at) == \A j \in 1..Len(at) :
                          at[j] # 0 /\ (j > 1 => at[j - 1] < at[j])
        OnePerRecognizer(origin, ran) ==
            \/ origin = <<"generic">>
            \/ /\ \A j \in 1..Len(origin) : \E k \in 1..Len(ran) : ran[k] = origin[j]
               /\ Rising(Places(origin, Fixed))
        InOrder(ran, order) == Len(ran) <= Len(order) /\ ran = SubSeq(order, 1, Len(ran))
    IN /\ s.pc \in {"Init", "DateResolved", "PatternsEvaluated", "Done"}
       /\ s.date_runs = (IF s.pc = "Init" THEN 0 ELSE 1)
       /\ s.pc = "Init" => s.ran = <<>>
       /\ InOrder(s.ran, Fixed)
       /\ s.pc \in {"PatternsEvaluated", "Done"} => Len(s.ran) \in {4, 5}
       /\ Len(s.origin) = Len(s.tasks)
       /\ OnePerRecognizer(s.origin, s.ran)
       /\ \A j \in 1..Len(s.tasks) : s.tasks[j].date = s.date_str
       /\ s.pc # "Done" => \A j \in 1..Len(s.origin) : s.origin[j] # "generic"
       /\ s.pc = "Done"
             => /\ Len(s.tasks) \in 1..5
                /\ s.tasks = parse_tasks_directly(variant, s.prompt, today)

\* what holds of each step of a run of parse_tasks_directly
ParsePhaseStep(s, t) ==
    /\ <<s.pc, t.pc>> \in {<<"Init", "DateResolved">>,
                            <<"DateResolved", "DateResolved">>,
                            <<"DateResolved", "PatternsEvaluated">>,
                            <<"PatternsEvaluated", "Done">>}
    /\ s.pc # "Init" => t.date_str = s.date_str
    /\ Len(t.ran) <= Len(s.ran) + 1
    /\ Len(t.tasks) <= Len(s.tasks) + 1
    /\ SubSeq(t.tasks, 1, Len(s.tasks)) = s.tasks
    /\ (t.pc = "Done" /\ Len(s.tasks) > 0) => t.tasks = s.tasks
    /\ (t.pc = "Done" /\ Len(s.tasks) = 0) => t.origin = <<"generic">>

\* C26: the phases follow one another, Init, DateResolved, PatternsEvaluated,
\* Done. The date is resolved once, before any recognizer runs, and every
\* task carries it. The recognizers run in the order lunch, gym, class,
\* meeting, appointment, each appends at most one task, and the tasks stand
\* in that order. The generic task is appended if and only if no recognizer
\* matched, and then stands alone: the call returns 1 to 5 tasks, those of
\* parse_tasks_directly.
C26_ParsePhases ==
    /\ [](stepped.pc # "idle" => ParsePhase(stepped))
    /\ [][stepped.pc # "idle" => ParsePhaseStep(stepped, stepped')]_vars

\* a meeting named before a lunch in the text, returned lunch first
C26_Witness ==
    /\ stepped.pc = "Done"
    /\ stepped.prompt = "meeting with Dana at 11:30am and lunch with Sam at 1pm"
    /\ stepped.date_runs = 1
    /\ stepped.origin = <<"lunch", "meeting">>
    /\ stepped.tasks[1].name = "Lunch with Sam"
    /\ stepped.tasks[2].name = "Meeting with Dana"

\* the date a text "YYYY-MM-DD" names
DateOf(text) == Date(int(Sub(text, 1, 4)), int(Sub(text, 6, 7)), int(Sub(text, 9, 10)))

\* a weekday name or abbreviation standing in the text as a whole word
WholeWordWeekday(pl) ==
    \E k \in 1..Len(days_of_week) : \E i \in 1..Len(pl) :
        /\ StartsAt(pl, days_of_week[k][1], i)
        /\ ~IsWord(Char(pl, i - 1))
        /\ ~IsWord(Char(pl, i + Len(days_of_week[k][1])))

\* C27: a prompt with no weekday name standing as a whole word and no other
\* date phrase ("today", "tomorrow", "next week", a month and day, a numeric
\* date) resolves to the default, the day after the reference date.
C27_WeekdayWholeWord ==
    LET Plain(pl) ==
            /\ ~WholeWordWeekday(pl)
            /\ ~Contains(pl, "today") /\ ~Contains(pl, "tomorrow")
            /\ ~Contains(pl, "next week")
            /\ \A k \in 1..Len(month_names) : ~month_search(pl, month_names[k][1]).ok
            /\ ~date_pattern_search(resolved.prompt).ok
            /\ ~iso_date_search(resolved.prompt).ok
        Of(pl) == Plain(pl) => resolved.date = strftime(NextDay(today))
    IN resolved.pc = "resolved" => Of(lower(resolved.prompt))

\* C28: for a prompt that gives no year, whichever rule resolves it, the date
\* is the reference date or a later one.
C28_NeverBeforeReference ==
    LET NoYear(p) == ~iso_date_search(p).ok /\ date_pattern_search(p).g3 = ""
    IN (resolved.pc = "resolved" /\ NoYear(resolved.prompt))
       => toordinal(DateOf(resolved.date)) >= toordinal(today)

\* C29: parse_tasks_directly of src/main.py, of src/main_gemini.py and of
\* src/src/main_geminiy.py give the same tasks for the same prompt and
\* reference date.
C29_SameDirectParse ==
    parsed.pc = "parsed"
       => \A v \in Variants : parse_tasks_directly(v, parsed.prompt, today) = parsed.tasks

\* C30: every task of one direct parse ends its own start time plus the one
\* duration of the prompt, N hours of the first "for N hour", 1 hour without
\* (stated for the tasks that end before midnight).
C30_OneDurationForAll ==
    LET Ends(t, b, n) == (ClockTime(b) /\ MinutesOfDay(b) + 60 * n < 1440)
                            => t.end_time = Clock12(MinutesOfDay(b) + 60 * n)
        Each(n) == \A j \in 1..Len(parsed.tasks) :
                      Ends(parsed.tasks[j], TimeOf(parsed.tasks[j].start_time), n)
    IN parsed.pc = "parsed" => Each(duration_hours(parsed.prompt))

====
